---- MODULE Spec2Model ----
(***************************************************************************)
(* Model of the teamwork bot: the pending-operation registry               *)
(* (internal/functions.go), the write capabilities a script calls inside   *)
(* executeJavaScriptDirect, the callback handler HandleCallbackQuery, and   *)
(* the persistence operations they reach (internal/reply.go,               *)
(* internal/prompts_v2.go, internal/db.go).                                *)
(*                                                                         *)
(* Strings that the code splits or tests by prefix are kept as the         *)
(* sequence of their "_"-separated parts, so that strings.Split,           *)
(* strings.Join and strings.HasPrefix are computed, not assumed.           *)
(***************************************************************************)
EXTENDS Integers, Sequences, FiniteSets, TLC

\* ------------------------------------------------------------------ bounds
\* largest clock reading (a reading stands for one value of UnixNano); at
\* this reading the clock stands still, no script runs any more and no row
\* is inserted any more
MaxClock == 1

\* ------------------------------------------------------------- the actors
\* rows of the users table: Telegram id -> users.id (0: no row)
TgIDs == {1, 2, 3}
UserIDs == {1, 2}
UserOfTg(tg) == IF tg \in UserIDs THEN tg ELSE 0

\* ------------------------------------------------ Go values (interface{})
\* k is the dynamic type; s and n carry the payload
Absent == [k |-> "absent", s |-> "", n |-> 0]
GoStr(x) == [k |-> "string", s |-> x, n |-> 0]
GoF64(x) == [k |-> "float64", s |-> "", n |-> x]
GoNaN == [k |-> "float64", s |-> "NaN", n |-> 0]
GoI64(x) == [k |-> "int64", s |-> "", n |-> x]
GoNil == [k |-> "nil", s |-> "", n |-> 0]
GoMap == [k |-> "map", s |-> "", n |-> 0]
\* a []interface{} of n button maps whose shape is s
GoSlice(shape, len) == [k |-> "slice", s |-> shape, n |-> len]

\* v.(string) and v.(float64): the comma-ok type assertions
IsString(v) == v.k = "string"
IsFloat64(v) == v.k = "float64"
\* int(f) for a float64 f; int(NaN) is platform dependent (0 or the most
\* negative int64) and is never the id of a row: it is modelled by 0
IntOfFloat(v) == IF v.s = "NaN" THEN 0 ELSE v.n
\* fmt.Sprintf("%d", int(f))
FmtInt(v) == IF v.s = "NaN" THEN "int(NaN)" ELSE ToString(v.n)

\* a map[string]interface{} holds its keys only; m[key] of a missing key is nil
NoParams == [key \in {} |-> Absent]
Get(params, key) == IF key \in DOMAIN params THEN params[key] ELSE Absent
\* the map literal of a wrapper, then the keys copied from an options object
WithParam(params, key, v) ==
  [k \in DOMAIN params \cup {key} |-> IF k = key THEN v ELSE params[k]]
Merge(params, extra) ==
  [k \in DOMAIN params \cup DOMAIN extra |->
     IF k \in DOMAIN extra THEN extra[k] ELSE params[k]]

\* ------------------------------------------------- JavaScript values (goja)
\* t: undefined, null, string, int (goja valueInt), float (valueFloat),
\*    object (f holds its own enumerable properties), array (n elements of
\*    shape s)
NoFields == [key \in {} |-> [t |-> "absent", s |-> "", n |-> 0]]
JsUndefined == [t |-> "undefined", s |-> "", n |-> 0, f |-> NoFields]
JsNull == [t |-> "null", s |-> "", n |-> 0, f |-> NoFields]
JsStr(x) == [t |-> "string", s |-> x, n |-> 0, f |-> NoFields]
JsInt(x) == [t |-> "int", s |-> "", n |-> x, f |-> NoFields]
JsObj(fields) == [t |-> "object", s |-> "", n |-> 0, f |-> fields]
JsArr(shape, len) == [t |-> "array", s |-> shape, n |-> len, f |-> NoFields]
Prop(x) == [t |-> x.t, s |-> x.s, n |-> x.n]
Fields1(k1, v1) == k1 :> Prop(v1)
Fields2(k1, v1, k2, v2) == k1 :> Prop(v1) @@ k2 :> Prop(v2)

\* strings that parse as a number under ToNumber
NumericStrings == {"1", "2"}
StrToNum(x) == IF x = "1" THEN 1 ELSE 2

\* Value.String()
JsString(v) ==
  CASE v.t = "string" -> v.s
    [] v.t = "int" -> ToString(v.n)
    [] v.t = "float" -> ToString(v.n)
    [] v.t = "undefined" -> "undefined"
    [] v.t = "null" -> "null"
    [] v.t = "array" -> "[array]"
    [] OTHER -> "[object Object]"

\* Value.ToFloat(): always a float64, NaN when the value is not a number
JsToFloat(v) ==
  CASE v.t \in {"int", "float"} -> GoF64(v.n)
    [] v.t = "string" /\ v.s \in NumericStrings -> GoF64(StrToNum(v.s))
    [] v.t = "null" -> GoF64(0)
    [] OTHER -> GoNaN

\* Value.Export(): valueInt exports int64, valueFloat float64
JsExport(p) ==
  CASE p.t = "string" -> GoStr(p.s)
    [] p.t = "int" -> GoI64(p.n)
    [] p.t = "float" -> GoF64(p.n)
    [] p.t = "absent" -> Absent
    [] p.t \in {"undefined", "null"} -> GoNil
    [] OTHER -> GoMap

\* goja.IsUndefined(v)
IsUndefined(v) == v.t = "undefined"
\* Value.ToObject(vm) throws a TypeError for undefined and null
ToObjectThrows(v) == v.t \in {"undefined", "null"}
\* for _, key := range obj.Keys() { parameters[key] = obj.Get(key).Export() }
ExportFields(v) == [key \in DOMAIN v.f |-> JsExport(v.f[key])]

\* --------------------------------------------------- the registry (:19-53)
\* type PendingOperation
PendingOperation(id, userID, chatID, type, parameters, description, now) ==
  [ID |-> id, UserID |-> userID, ChatID |-> chatID, Type |-> type,
   Parameters |-> parameters, Description |-> description, CreatedAt |-> now]
NoOp == PendingOperation(<<>>, 0, 0, "", NoParams, <<>>, 0)

\* fmt.Sprintf("op_%d", time.Now().UnixNano()), kept as its "_"-parts
generateOperationID(now) == <<"op", ToString(now)>>

\* pendingOperations[operation.ID] = operation
Store(reg, op) == [id \in DOMAIN reg \cup {op.ID} |->
                     IF id = op.ID THEN op ELSE reg[id]]
\* a registry whose delete forgets to remove: the record stays
DeleteNothing(reg, id) == reg

\* delete(pendingOperations, operationID)
Delete(reg, id) == [k \in DOMAIN reg \ {id} |-> reg[k]]

Failed(reg, msg) == [err |-> msg, op |-> NoOp, reg |-> reg]
Registered(reg, op) == [err |-> "", op |-> op, reg |-> Store(reg, op)]

\* the optional string fields a handler lists in the description
Listed(parameters, keys) ==
  LET F[i \in 0..Len(keys)] ==
        IF i = 0 THEN <<>>
        ELSE IF IsString(Get(parameters, keys[i]))
             THEN F[i-1] \o <<keys[i], Get(parameters, keys[i]).s>>
             ELSE F[i-1]
  IN F[Len(keys)]

handleCreateProject(reg, userID, chatID, parameters, now) ==
  IF ~IsString(Get(parameters, "title")) THEN Failed(reg, "invalid title parameter")
  ELSE LET title == Get(parameters, "title").s
           description == IF IsString(Get(parameters, "description"))
                          THEN Get(parameters, "description").s ELSE ""
           operationDesc == IF description # ""
                            THEN <<"Create project", title, "Description:", description>>
                            ELSE <<"Create project", title>>
       IN Registered(reg, PendingOperation(generateOperationID(now), userID, chatID,
                        "create_project", parameters, operationDesc, now))

handleUpdateProject(reg, userID, chatID, parameters, now) ==
  IF ~IsFloat64(Get(parameters, "project_id")) THEN Failed(reg, "invalid project_id parameter")
  ELSE Registered(reg, PendingOperation(generateOperationID(now), userID, chatID,
          "update_project", parameters,
          <<"Update project #", FmtInt(Get(parameters, "project_id"))>>
             \o Listed(parameters, <<"title", "description", "status">>), now))

handleDeleteProject(reg, userID, chatID, parameters, now) ==
  IF ~IsFloat64(Get(parameters, "project_id")) THEN Failed(reg, "invalid project_id parameter")
  ELSE Registered(reg, PendingOperation(generateOperationID(now), userID, chatID,
          "delete_project", parameters,
          <<"Delete project #", FmtInt(Get(parameters, "project_id"))>>, now))

handleCreateTask(reg, userID, chatID, parameters, now) ==
  IF ~IsFloat64(Get(parameters, "project_id")) THEN Failed(reg, "invalid project_id parameter")
  ELSE IF ~IsString(Get(parameters, "title")) THEN Failed(reg, "invalid title parameter")
  ELSE Registered(reg, PendingOperation(generateOperationID(now), userID, chatID,
          "create_task", parameters,
          <<"Create task", Get(parameters, "title").s>>, now))

handleUpdateTask(reg, userID, chatID, parameters, now) ==
  IF ~IsFloat64(Get(parameters, "task_id")) THEN Failed(reg, "invalid task_id parameter")
  ELSE Registered(reg, PendingOperation(generateOperationID(now), userID, chatID,
          "update_task", parameters,
          <<"Update task #", FmtInt(Get(parameters, "task_id"))>>
             \o Listed(parameters, <<"title", "description", "status", "priority">>), now))

handleDeleteTask(reg, userID, chatID, parameters, now) ==
  IF ~IsFloat64(Get(parameters, "task_id")) THEN Failed(reg, "invalid task_id parameter")
  ELSE Registered(reg, PendingOperation(generateOperationID(now), userID, chatID,
          "delete_task", parameters,
          <<"Delete task #", FmtInt(Get(parameters, "task_id"))>>, now))

handleSetCurrentProject(reg, userID, chatID, parameters, now) ==
  IF ~IsFloat64(Get(parameters, "project_id")) THEN Failed(reg, "invalid project_id parameter")
  ELSE Registered(reg, PendingOperation(generateOperationID(now), userID, chatID,
          "set_current_project", parameters,
          <<"Set current project #", FmtInt(Get(parameters, "project_id"))>>, now))

\* if len(buttons) > 6
MaxButtons == 6

handleSendMessageWithButtons(reg, userID, chatID, parameters, now) ==
  LET buttons == Get(parameters, "buttons") IN
  IF ~IsString(Get(parameters, "message")) THEN Failed(reg, "invalid message parameter")
  ELSE IF buttons.k # "slice" THEN Failed(reg, "invalid buttons parameter")
  ELSE IF buttons.n > MaxButtons THEN Failed(reg, "too many buttons (max 6 allowed)")
  ELSE IF buttons.n > 0 /\ buttons.s = "notmap" THEN Failed(reg, "invalid button format")
  ELSE IF buttons.n > 0 /\ buttons.s = "notext" THEN Failed(reg, "invalid button text format")
  ELSE IF buttons.n > 0 /\ buttons.s = "noaction" THEN Failed(reg, "invalid button action format")
  ELSE Registered(reg, PendingOperation(generateOperationID(now), userID, chatID,
          "send_message_with_buttons", parameters,
          <<"Send message with buttons:", Get(parameters, "message").s>>, now))

\* ------------------------- the write capabilities of a script (:1621-1862)
\* what a capability call gives the script: a thrown TypeError (fault) or
\* the proposal map; reg is the registry after the call
NoProposal == [requiresConfirmation |-> FALSE, operationID |-> <<>>,
               description |-> <<>>, type |-> ""]
Throw(reg, msg) == [fault |-> msg, ret |-> NoProposal, reg |-> reg]
\* the tail shared by the wrappers: panic on the handler's error, else
\* vm.ToValue(map{requiresConfirmation, operationID, description, type})
Propose(r, type, msg) ==
  IF r.err # "" THEN Throw(r.reg, msg)
  ELSE [fault |-> "",
        ret |-> [requiresConfirmation |-> TRUE, operationID |-> r.op.ID,
                 description |-> r.op.Description, type |-> type],
        reg |-> r.reg]

\* the options object of updateProject, createTask and updateTask
HasOptions(args) == Len(args) > 1 /\ ~IsUndefined(args[2])
WithOptions(params, args) ==
  IF HasOptions(args) THEN Merge(params, ExportFields(args[2])) ELSE params

createProject(reg, userID, args, now) ==
  IF Len(args) < 1 THEN Throw(reg, "createProject requires at least 1 argument (name)")
  ELSE LET name == JsString(args[1])
           description == IF Len(args) > 1 /\ ~IsUndefined(args[2])
                          THEN JsString(args[2]) ELSE ""
           parameters == WithParam(WithParam(NoParams, "name", GoStr(name)),
                                   "description", GoStr(description))
       IN Propose(handleCreateProject(reg, userID, 0, parameters, now),
                  "create_project", "Failed to create project operation")

updateProject(reg, userID, args, now) ==
  IF Len(args) < 1 THEN Throw(reg, "updateProject requires at least 1 argument (project_id)")
  ELSE IF HasOptions(args) /\ ToObjectThrows(args[2]) THEN Throw(reg, "TypeError")
  ELSE LET parameters == WithOptions(
                WithParam(NoParams, "project_id", JsToFloat(args[1])), args)
       IN Propose(handleUpdateProject(reg, userID, 0, parameters, now),
                  "update_project", "Failed to create update project operation")

deleteProject(reg, userID, args, now) ==
  IF Len(args) < 1 THEN Throw(reg, "deleteProject requires 1 argument (project_id)")
  ELSE Propose(handleDeleteProject(reg, userID, 0,
                  WithParam(NoParams, "project_id", JsToFloat(args[1])), now),
               "delete_project", "Failed to create delete project operation")

createTask(reg, userID, args, now) ==
  IF Len(args) < 1 THEN Throw(reg, "createTask requires at least 1 argument (title)")
  ELSE IF HasOptions(args) /\ ToObjectThrows(args[2]) THEN Throw(reg, "TypeError")
  ELSE LET parameters == WithOptions(
                WithParam(NoParams, "title", GoStr(JsString(args[1]))), args)
       IN Propose(handleCreateTask(reg, userID, 0, parameters, now),
                  "create_task", "Failed to create task operation")

updateTask(reg, userID, args, now) ==
  IF Len(args) < 1 THEN Throw(reg, "updateTask requires at least 1 argument (task_id)")
  ELSE IF HasOptions(args) /\ ToObjectThrows(args[2]) THEN Throw(reg, "TypeError")
  ELSE LET parameters == WithOptions(
                WithParam(NoParams, "task_id", JsToFloat(args[1])), args)
       IN Propose(handleUpdateTask(reg, userID, 0, parameters, now),
                  "update_task", "Failed to create update task operation")

deleteTask(reg, userID, args, now) ==
  IF Len(args) < 1 THEN Throw(reg, "deleteTask requires 1 argument (task_id)")
  ELSE Propose(handleDeleteTask(reg, userID, 0,
                  WithParam(NoParams, "task_id", JsToFloat(args[1])), now),
               "delete_task", "Failed to create delete task operation")

setCurrentProject(reg, userID, args, now) ==
  IF Len(args) < 1 THEN Throw(reg, "setCurrentProject requires 1 argument (project_id)")
  ELSE Propose(handleSetCurrentProject(reg, userID, 0,
                  WithParam(NoParams, "project_id", JsToFloat(args[1])), now),
               "set_current_project", "Failed to create set current project operation")

\* the loop over buttonsArray.Keys(): an array gives one map per element, a
\* non-empty string one map per character (without "text"), a number none
ButtonMaps(v) ==
  CASE v.t = "array" -> GoSlice(v.s, v.n)
    [] v.t = "string" /\ v.s # "" -> GoSlice("notext", 1)
    [] OTHER -> GoSlice("", 0)

sendMessageWithButtons(reg, userID, args, now) ==
  IF Len(args) < 2
  THEN Throw(reg, "sendMessageWithButtons requires 2 arguments (message, buttons)")
  ELSE IF ToObjectThrows(args[2]) THEN Throw(reg, "TypeError")
  ELSE IF args[2].t = "array" /\ args[2].n > 0 /\ args[2].s = "undefined"
  THEN Throw(reg, "TypeError")
  ELSE LET parameters == WithParam(WithParam(NoParams, "message",
                              GoStr(JsString(args[1]))), "buttons", ButtonMaps(args[2]))
       IN Propose(handleSendMessageWithButtons(reg, userID, 0, parameters, now),
                  "send_message_with_buttons", "Failed to create send message operation")

WriteCapabilities == {"createProject", "updateProject", "deleteProject", "createTask",
                      "updateTask", "deleteTask", "setCurrentProject",
                      "sendMessageWithButtons"}

\* teamwork.<fn>(args...) as the interpreter dispatches it
CallCapability(fn, reg, userID, args, now) ==
  CASE fn = "createProject" -> createProject(reg, userID, args, now)
    [] fn = "updateProject" -> updateProject(reg, userID, args, now)
    [] fn = "deleteProject" -> deleteProject(reg, userID, args, now)
    [] fn = "createTask" -> createTask(reg, userID, args, now)
    [] fn = "updateTask" -> updateTask(reg, userID, args, now)
    [] fn = "deleteTask" -> deleteTask(reg, userID, args, now)
    [] fn = "setCurrentProject" -> setCurrentProject(reg, userID, args, now)
    [] OTHER -> sendMessageWithButtons(reg, userID, args, now)

\* ------------------------------------------------- the persistence store
\* db is the record [projects, project_users, tasks, current, nextProject,
\* nextTask]: the tables projects, project_users and tasks, the column
\* users.current_project_id (0 is NULL) and the two AUTO_INCREMENT counters.
\* Every operation returns [db, err].  The table messages is a sequence of
\* rows; no handler reads it, and a step reports the rows it appended.
Ok(d) == [db |-> d, err |-> ""]
Err(d, msg) == [db |-> d, err |-> msg]

\* DB.GetUserRoleInProject: the role, "" when there is no membership row
GetUserRoleInProject(d, projectID, userID) ==
  IF \E m \in d.project_users : m.project_id = projectID /\ m.user_id = userID
  THEN (CHOOSE m \in d.project_users :
          m.project_id = projectID /\ m.user_id = userID).role
  ELSE ""

\* DB.GetProjectByIDForUser: found iff the user is a member of the project
HasProjectForUser(d, projectID, userID) ==
  projectID \in DOMAIN d.projects /\ GetUserRoleInProject(d, projectID, userID) # ""

\* DB.SetUserCurrentProject
SetUserCurrentProject(d, userID, projectID) ==
  IF GetUserRoleInProject(d, projectID, userID) = ""
  THEN Err(d, "failed to check project access")
  ELSE Ok([d EXCEPT !.current[userID] = projectID])

\* DB.CreateProject: the row, the owner membership, then the current project
CreateProject(d, creatorUserID, title, description) ==
  LET projectID == d.nextProject
      row == [title |-> title, description |-> description, status |-> "planning"]
      d1 == [d EXCEPT
               !.projects = [p \in DOMAIN d.projects \cup {projectID} |->
                               IF p = projectID THEN row ELSE d.projects[p]],
               !.project_users = @ \cup {[project_id |-> projectID,
                                          user_id |-> creatorUserID, role |-> "owner"]},
               !.nextProject = projectID + 1]
  IN Ok(SetUserCurrentProject(d1, creatorUserID, projectID).db)

\* DB.UpdateProject: owners and admins; all three columns are written
UpdateProject(d, projectID, userID, title, description, status) ==
  LET userRole == GetUserRoleInProject(d, projectID, userID) IN
  IF userRole = "" THEN Err(d, "failed to check user permissions")
  ELSE IF userRole \notin {"owner", "admin"}
  THEN Err(d, "insufficient permissions to update project")
  ELSE Ok([d EXCEPT !.projects[projectID] =
                      [title |-> title, description |-> description, status |-> status]])

\* DB.DeleteProject: owners only; ON DELETE CASCADE removes the memberships
\* and the tasks, ON DELETE SET NULL clears current_project_id
DeleteProject(d, projectID, userID) ==
  LET userRole == GetUserRoleInProject(d, projectID, userID) IN
  IF userRole = "" THEN Err(d, "failed to check user permissions")
  ELSE IF userRole # "owner"
  THEN Err(d, "insufficient permissions: only owners can delete projects")
  ELSE Ok([d EXCEPT
             !.projects = [p \in DOMAIN d.projects \ {projectID} |-> d.projects[p]],
             !.project_users = {m \in @ : m.project_id # projectID},
             !.tasks = [t \in {x \in DOMAIN d.tasks : d.tasks[x].project_id # projectID}
                          |-> d.tasks[t]],
             !.current = [u \in DOMAIN d.current |->
                            IF d.current[u] = projectID THEN 0 ELSE d.current[u]]])

\* DB.GetTaskByID: found iff the user is a member of the task's project
HasTaskForUser(d, taskID, userID) ==
  taskID \in DOMAIN d.tasks
  /\ GetUserRoleInProject(d, d.tasks[taskID].project_id, userID) # ""

\* DB.CreateTask: any member of the project; MySQL defaults status to todo
CreateTask(d, projectID, userID, title, description, priority, deadline) ==
  IF GetUserRoleInProject(d, projectID, userID) = ""
  THEN Err(d, "failed to check project access")
  ELSE LET row == [project_id |-> projectID, user_id |-> userID, title |-> title,
                   description |-> description, status |-> "todo",
                   priority |-> priority, deadline |-> deadline, completed |-> FALSE]
       IN Ok([d EXCEPT
                !.tasks = [t \in DOMAIN d.tasks \cup {d.nextTask} |->
                             IF t = d.nextTask THEN row ELSE d.tasks[t]],
                !.nextTask = @ + 1])

\* DB.UpdateTask: completed_at is set when the status becomes done and
\* written as NULL in every other case
UpdateTask(d, taskID, userID, title, description, status, priority, deadline) ==
  IF ~HasTaskForUser(d, taskID, userID) THEN Err(d, "task not found or no access")
  ELSE LET task == d.tasks[taskID]
           completedAt == status = "done" /\ task.status # "done"
       IN Ok([d EXCEPT !.tasks[taskID] =
                [project_id |-> task.project_id, user_id |-> task.user_id,
                 title |-> title, description |-> description, status |-> status,
                 priority |-> priority, deadline |-> deadline,
                 completed |-> completedAt]])

\* DB.DeleteTask: owners, admins or the task's creator
DeleteTask(d, taskID, userID) ==
  IF ~HasTaskForUser(d, taskID, userID) THEN Err(d, "task not found or no access")
  ELSE LET task == d.tasks[taskID]
           userRole == GetUserRoleInProject(d, task.project_id, userID)
       IN IF userRole \notin {"owner", "admin"} /\ task.user_id # userID
          THEN Err(d, "insufficient permissions to delete task")
          ELSE Ok([d EXCEPT !.tasks = [t \in DOMAIN d.tasks \ {taskID} |-> d.tasks[t]]])

\* DB.SaveMessage
SaveMessage(messages, userID, chatID, role, content) ==
  Append(messages, [user_id |-> userID, chat_id |-> chatID,
                    role |-> role, content |-> content])

\* DB.CleanupOldMessages: keep the keepCount newest messages of the chat
CleanupOldMessages(messages, chatID, keepCount) ==
  LET ofChat == {i \in 1..Len(messages) : messages[i].chat_id = chatID}
      newer(i) == Cardinality({j \in ofChat : j > i})
      keep == {i \in 1..Len(messages) : i \notin ofChat \/ newer(i) < keepCount}
      F[i \in 0..Len(messages)] ==
        IF i = 0 THEN <<>>
        ELSE IF i \in keep THEN Append(F[i-1], messages[i]) ELSE F[i-1]
  IN IF Len(messages) <= keepCount THEN messages ELSE F[Len(messages)]

\* db.CleanupOldMessages(chatID, 50)
KeepMessages == 50

\* SaveMessage followed by CleanupOldMessages, as the handlers do
Remember(messages, userID, chatID, role, content) ==
  CleanupOldMessages(SaveMessage(messages, userID, chatID, role, content),
                     chatID, KeepMessages)

\* ------------------------------------- executing a confirmed operation
\* *OperationResult together with the store after the routine; routine names
\* the execute function that ran.  dbErr: the routine's database statement
\* fails (connection or SQL error), which every routine reports as failure.
Result(d, routine, success, message) ==
  [db |-> d, routine |-> routine, Success |-> success, Message |-> message]

StrParam(op, key) == IF IsString(Get(op.Parameters, key)) THEN Get(op.Parameters, key).s ELSE ""

\* time.Parse("2006-01-02 15:04", deadlineStr) succeeds
ValidDeadlines == {"2025-01-01 10:00"}

executeCreateProject(d, op, dbErr) ==
  LET r == CreateProject(d, op.UserID, Get(op.Parameters, "title").s, StrParam(op, "description"))
  IN IF dbErr THEN Result(d, "executeCreateProject", FALSE, <<"create project error">>)
     ELSE Result(r.db, "executeCreateProject", TRUE,
                 <<"Project created", Get(op.Parameters, "title").s>>)

executeUpdateProject(d, op, dbErr) ==
  LET projectID == IntOfFloat(Get(op.Parameters, "project_id"))
      r == UpdateProject(d, projectID, op.UserID, StrParam(op, "title"),
                         StrParam(op, "description"), StrParam(op, "status"))
  IN IF dbErr \/ r.err # ""
     THEN Result(d, "executeUpdateProject", FALSE, <<"update project error">>)
     ELSE Result(r.db, "executeUpdateProject", TRUE,
                 <<"Project updated", ToString(projectID)>>)

executeDeleteProject(d, op, dbErr) ==
  LET projectID == IntOfFloat(Get(op.Parameters, "project_id"))
      r == DeleteProject(d, projectID, op.UserID)
  IN IF dbErr \/ r.err # ""
     THEN Result(d, "executeDeleteProject", FALSE, <<"delete project error">>)
     ELSE Result(r.db, "executeDeleteProject", TRUE,
                 <<"Project deleted", ToString(projectID)>>)

executeCreateTask(d, op, dbErr) ==
  LET projectID == IntOfFloat(Get(op.Parameters, "project_id"))
      title == Get(op.Parameters, "title").s
      priority == IF IsString(Get(op.Parameters, "priority"))
                  THEN Get(op.Parameters, "priority").s ELSE "medium"
      deadline == IF StrParam(op, "deadline") \in ValidDeadlines
                  THEN StrParam(op, "deadline") ELSE ""
      r == CreateTask(d, projectID, op.UserID, title, StrParam(op, "description"),
                      priority, deadline)
  IN IF dbErr THEN Result(d, "executeCreateTask", FALSE, <<"get project error">>)
     ELSE IF ~HasProjectForUser(d, projectID, op.UserID)
     THEN Result(d, "executeCreateTask", FALSE, <<"Project not found">>)
     ELSE IF r.err # "" THEN Result(d, "executeCreateTask", FALSE, <<"create task error">>)
     ELSE Result(r.db, "executeCreateTask", TRUE, <<"Task created", title>>)

\* a routine that writes the empty string for every field the parameters
\* do not name
executeUpdateTaskBlank(d, op, dbErr) ==
  LET taskID == IntOfFloat(Get(op.Parameters, "task_id"))
      r == UpdateTask(d, taskID, op.UserID, StrParam(op, "title"),
                      StrParam(op, "description"), StrParam(op, "status"),
                      StrParam(op, "priority"),
                      IF StrParam(op, "deadline") \in ValidDeadlines
                      THEN StrParam(op, "deadline") ELSE "")
  IN IF dbErr THEN Result(d, "executeUpdateTask", FALSE, <<"get task error">>)
     ELSE IF ~HasTaskForUser(d, taskID, op.UserID)
     THEN Result(d, "executeUpdateTask", FALSE, <<"Task not found">>)
     ELSE IF r.err # "" THEN Result(d, "executeUpdateTask", FALSE, <<"update task error">>)
     ELSE Result(r.db, "executeUpdateTask", TRUE, <<"Task updated", ToString(taskID)>>)
executeUpdateTask(d, op, dbErr) ==
  LET taskID == IntOfFloat(Get(op.Parameters, "task_id"))
      task == d.tasks[taskID]
      keep(key, current) == IF IsString(Get(op.Parameters, key))
                            THEN Get(op.Parameters, key).s ELSE current
      deadline == IF StrParam(op, "deadline") \in ValidDeadlines
                  THEN StrParam(op, "deadline") ELSE task.deadline
      r == UpdateTask(d, taskID, op.UserID, keep("title", task.title),
                      keep("description", task.description), keep("status", task.status),
                      keep("priority", task.priority), deadline)
  IN IF dbErr THEN Result(d, "executeUpdateTask", FALSE, <<"get task error">>)
     ELSE IF ~HasTaskForUser(d, taskID, op.UserID)
     THEN Result(d, "executeUpdateTask", FALSE, <<"Task not found">>)
     ELSE IF r.err # "" THEN Result(d, "executeUpdateTask", FALSE, <<"update task error">>)
     ELSE Result(r.db, "executeUpdateTask", TRUE, <<"Task updated", ToString(taskID)>>)

executeDeleteTask(d, op, dbErr) ==
  LET taskID == IntOfFloat(Get(op.Parameters, "task_id"))
      r == DeleteTask(d, taskID, op.UserID)
  IN IF dbErr \/ r.err # ""
     THEN Result(d, "executeDeleteTask", FALSE, <<"delete task error">>)
     ELSE Result(r.db, "executeDeleteTask", TRUE, <<"Task deleted", ToString(taskID)>>)

executeSetCurrentProject(d, op, dbErr) ==
  LET projectID == IntOfFloat(Get(op.Parameters, "project_id"))
      r == SetUserCurrentProject(d, op.UserID, projectID)
  IN IF dbErr THEN Result(d, "executeSetCurrentProject", FALSE, <<"get project error">>)
     ELSE IF ~HasProjectForUser(d, projectID, op.UserID)
     THEN Result(d, "executeSetCurrentProject", FALSE, <<"Project not found">>)
     ELSE IF r.err # ""
     THEN Result(d, "executeSetCurrentProject", FALSE, <<"set current project error">>)
     ELSE Result(r.db, "executeSetCurrentProject", TRUE,
                 <<"Current project set", ToString(projectID)>>)

\* touches no table: the message is sent by the caller
executeSendMessageWithButtons(d, op, dbErr) ==
  Result(d, "executeSendMessageWithButtons", TRUE, <<Get(op.Parameters, "message").s>>)

\* the switch on operation.Type
executeOperation(d, op, dbErr) ==
  CASE op.Type = "create_project" -> executeCreateProject(d, op, dbErr)
    [] op.Type = "update_project" -> executeUpdateProject(d, op, dbErr)
    [] op.Type = "delete_project" -> executeDeleteProject(d, op, dbErr)
    [] op.Type = "create_task" -> executeCreateTask(d, op, dbErr)
    [] op.Type = "update_task" -> executeUpdateTask(d, op, dbErr)
    [] op.Type = "delete_task" -> executeDeleteTask(d, op, dbErr)
    [] op.Type = "set_current_project" -> executeSetCurrentProject(d, op, dbErr)
    [] op.Type = "send_message_with_buttons" -> executeSendMessageWithButtons(d, op, dbErr)
    [] OTHER -> Result(d, "", FALSE, <<"Unknown operation type", op.Type>>)

\* the operations whose execution INSERTs a row
Inserts(op) == op.Type \in {"create_project", "create_task"}

\* ------------------------------------------------- the read capabilities
\* `var rows []*T` filled by append in the loop over the result set: the
\* slice is nil until a row is appended
NilSlice == [k |-> "nilslice", s |-> "", n |-> 0]
Collect(ids) == IF ids = {} THEN NilSlice ELSE GoSlice("rows", Cardinality(ids))
\* the projects joined with the memberships of the user
MemberProjects(d, userID) ==
  {p \in DOMAIN d.projects :
     \E pu \in d.project_users : pu.project_id = p /\ pu.user_id = userID}
\* the tasks joined with their project and the memberships of the user
MemberTasks(d, userID) ==
  {t \in DOMAIN d.tasks : d.tasks[t].project_id \in MemberProjects(d, userID)}
\* DB.GetUserProjects and DB.GetUserProjectsByStatus
GetUserProjects(d, userID) == Collect(MemberProjects(d, userID))
GetUserProjectsByStatus(d, userID, status) ==
  Collect({p \in MemberProjects(d, userID) : d.projects[p].status = status})
\* DB.GetUserTasks, DB.GetTasksByStatus and DB.GetProjectTasks
GetUserTasks(d, userID) == Collect(MemberTasks(d, userID))
GetTasksByStatus(d, userID, status) ==
  Collect({t \in MemberTasks(d, userID) : d.tasks[t].status = status})
GetProjectTasks(d, projectID, userID) ==
  IF GetUserRoleInProject(d, projectID, userID) = ""
  THEN [rows |-> NilSlice, err |-> "user does not have access to this project"]
  ELSE [rows |-> Collect({t \in DOMAIN d.tasks :
                            d.tasks[t].project_id = projectID
                              /\ projectID \in DOMAIN d.projects}),
        err |-> ""]

\* json.Marshal of the list and json.Unmarshal into interface{}: a nil slice
\* is written as null, and null is read back as nil
Marshal(rows) == IF rows.k = "nilslice" THEN <<"null">> ELSE <<"[", rows.n, "]">>
Unmarshal(text) == IF text = <<"null">> THEN GoNil ELSE GoSlice("rows", text[2])
\* vm.ToValue: nil becomes null, a []interface{} becomes an array
ToValue(v) == IF v.k = "nil" THEN JsNull ELSE JsArr(v.s, v.n)

\* executeListProjects: the JSON text of the field "projects" and the count
executeListProjects(d, userID, parameters) ==
  LET projects ==
        IF "status" \in DOMAIN parameters /\ IsString(parameters["status"])
        THEN GetUserProjectsByStatus(d, userID, parameters["status"].s)
        ELSE GetUserProjects(d, userID)
  IN  [projects |-> Marshal(projects), count |-> projects.n, err |-> ""]
\* executeListTasks: the JSON text of the field "tasks" and the count
executeListTasks(d, userID, parameters) ==
  LET byProject == "project_id" \in DOMAIN parameters /\ IsFloat64(parameters["project_id"])
      found == GetProjectTasks(d, IntOfFloat(parameters["project_id"]), userID)
      tasks ==
        IF byProject THEN found.rows
        ELSE IF "status" \in DOMAIN parameters /\ IsString(parameters["status"])
        THEN GetTasksByStatus(d, userID, parameters["status"].s)
        ELSE GetUserTasks(d, userID)
  IN  IF byProject /\ found.err # ""
      THEN [tasks |-> <<>>, count |-> 0, err |-> "failed to get tasks: " \o found.err]
      ELSE [tasks |-> Marshal(tasks), count |-> tasks.n, err |-> ""]

\* teamwork.listProjects(status): what the script gets back, or the fault
listProjects(d, userID, args) ==
  LET parameters ==
        IF Len(args) > 0 /\ args[1].t # "undefined" /\ JsString(args[1]) # ""
        THEN "status" :> GoStr(JsString(args[1]))
        ELSE NoParams
      result == executeListProjects(d, userID, parameters)
  IN  IF result.err # ""
      THEN [fault |-> "Failed to list projects: " \o result.err, ret |-> JsUndefined]
      ELSE [fault |-> "", ret |-> ToValue(Unmarshal(result.projects))]
\* teamwork.listTasks(filter): what the script gets back, or the fault
listTasks(d, userID, args) ==
  LET parameters ==
        IF Len(args) > 0 /\ args[1].t = "object"
        THEN [key \in DOMAIN args[1].f |-> JsExport(args[1].f[key])]
        ELSE NoParams
      result == executeListTasks(d, userID, parameters)
  IN  IF result.err # ""
      THEN [fault |-> "Failed to list tasks: " \o result.err, ret |-> JsUndefined]
      ELSE [fault |-> "", ret |-> ToValue(Unmarshal(result.tasks))]
\* DB.GetUserCurrentProject: the project users.current_project_id names, if
\* the user is a member of it; 0 for none
GetUserCurrentProject(d, userID) ==
  IF userID \in DOMAIN d.current /\ HasProjectForUser(d, d.current[userID], userID)
  THEN d.current[userID] ELSE 0
JsBool(b) == [t |-> "boolean", s |-> IF b THEN "true" ELSE "false", n |-> 0, f |-> NoFields]
\* executeGetCurrentProject and teamwork.getCurrentProject(): the object with
\* the fields current_project and has_current
getCurrentProject(d, userID, args) ==
  LET currentProject == GetUserCurrentProject(d, userID) IN
    [fault |-> "",
     ret |-> JsObj(Fields2("current_project",
                           IF currentProject = 0 THEN JsNull ELSE JsInt(currentProject),
                           "has_current", JsBool(currentProject # 0)))]
\* the read capability a script calls by name
CallRead(fn, d, userID, args) ==
  IF fn = "listProjects" THEN listProjects(d, userID, args)
  ELSE IF fn = "listTasks" THEN listTasks(d, userID, args)
  ELSE getCurrentProject(d, userID, args)

\* ------------------------------------------ executeJavaScriptDirect: data
\* A text is kept as the sequence of its parts (see the header).
\* float64 values of the parameter timeout_seconds besides the whole numbers:
\* x + 0.5, and a value beyond the range of int (1e19)
GoFrac(x) == [k |-> "float64", s |-> "frac", n |-> x]
GoHuge == [k |-> "float64", s |-> "huge", n |-> 0]

\* the int a float64 converts to; inf = -1 and inf = 1 stand for the lowest
\* and the highest int
GoInt(n) == [inf |-> 0, n |-> n]
LowestInt == [inf |-> -1, n |-> 0]
HighestInt == [inf |-> 1, n |-> 0]
\* :1310  int(timeoutFloat): a fraction is cut off; the conversion of NaN and
\* of a value out of range is left to the implementation (amd64 yields the
\* lowest int for both, arm64 yields 0 and the highest int)
IntsOfFloat(v) ==
  IF v.s = "NaN" THEN {LowestInt, GoInt(0)}
  ELSE IF v.s = "huge" THEN {LowestInt, HighestInt}
  ELSE {GoInt(v.n)}

DefaultTimeout == 10
MinTimeout == 1
MaxTimeout == 60
\* :1311-1315  the clamp
ClampTimeout(i) ==
  IF i.inf = -1 \/ (i.inf = 0 /\ i.n < MinTimeout) THEN MinTimeout
  ELSE IF i.inf = 1 \/ i.n > MaxTimeout THEN MaxTimeout
  ELSE i.n
\* :1443-1446  the Timeout of the http.Client of a fetch, in seconds
FallbackRequestTimeout == 5
RequestTimeout(timeout) ==
  IF timeout - 1 <= 0 THEN FallbackRequestTimeout ELSE timeout - 1
\* a fetch that is bound by its http.Client alone
FetchLimitOfClient(timeout, elapsed) == RequestTimeout(timeout)
\* :1339, :1422-1448  the seconds a fetch may take when it starts elapsed
\* seconds into the invocation: the request carries the invocation's context
\* (http.NewRequestWithContext(ctx, ...)), and http.Client.Do ends it at the
\* earlier of the context's deadline and now + Timeout
FetchLimit(timeout, elapsed) ==
  IF timeout - elapsed < RequestTimeout(timeout)
  THEN timeout - elapsed ELSE RequestTimeout(timeout)
\* :1307-1316  the timeouts an invocation may run with
EffectiveTimeouts(parameters) ==
  IF IsFloat64(Get(parameters, "timeout_seconds"))
  THEN {ClampTimeout(i) : i \in IntsOfFloat(Get(parameters, "timeout_seconds"))}
  ELSE {DefaultTimeout}

\* fmt.Sprintf("%v", arg.Export()) of a script value, "undefined" for a value
\* without export type
Sprint(v) ==
  IF v.t \in {"undefined", "null"} THEN <<"undefined">>
  ELSE IF v.t = "string" THEN <<v.s>>
  ELSE IF v.t = "int" THEN <<ToString(v.n)>>
  ELSE <<"map[]">>
\* :1366-1369  the entry output() appends: %v of the exported value
OutputText(v) == IF v.t \in {"undefined", "null"} THEN <<"<nil>">> ELSE Sprint(v)
\* :1352-1359  the text message() appends for its arguments
RECURSIVE MessageText(_)
MessageText(args) ==
  IF args = <<>> THEN <<>>
  ELSE IF Len(args) = 1 THEN Sprint(args[1])
  ELSE Sprint(args[1]) \o <<" ">> \o MessageText(Tail(args))
\* :1934-1944  the final expression value as the single output entry
ResultText(v) ==
  IF v.t \in {"undefined", "null"} THEN <<"undefined">>
  ELSE IF v.t = "string" THEN <<"\"", v.s, "\"">>
  ELSE IF v.t = "int" THEN <<ToString(v.n)>>
  ELSE <<"{}">>
\* :1379-1383  the entry debug() appends
DebugText(v) == <<"DEBUG JSON:">> \o ResultText(v)

\* the statements of a script, as far as the host sees them
Stmt(op, fn, args) == [op |-> op, fn |-> fn, args |-> args]
SMessage(args) == Stmt("message", "", args)
SOutput(args) == Stmt("output", "", args)
SDebug(args) == Stmt("debug", "", args)
SThrow == Stmt("throw", "", <<>>)
SLoop == Stmt("loop", "", <<>>)
SCall(fn, args) == Stmt("call", fn, args)
SList(fn, args) == Stmt("list", fn, args)
SSetGlobal == Stmt("setGlobal", "", <<>>)
SOutputGlobal == Stmt("outputGlobal", "", <<>>)
\* fetch(url)
SFetch == Stmt("fetch", "", <<JsStr("http://host/")>>)
\* setTimeout(function () { message(text) }, delay)
STimer(text) == Stmt("setTimeout", "message", <<JsStr(text)>>)
\* ------------------------------------------------------ the Syntax Guard
\* The code of a script is the sequence of its atoms: " " and "\n" are the
\* white space, every other atom is a run of characters without white space
\* in which the characters { } ) : ; stand only as atoms of their own, "=>"
\* is one atom, and the words return and function are atoms.
WhiteSpace == {" ", "\n"}
\* whether the characters of an atom hold the characters of another
HoldsAtom(atom, pattern) == atom = pattern \/ (pattern = "=" /\ atom = "=>")
\* strings.Contains, strings.Count, strings.HasPrefix, strings.HasSuffix
StrContains(text, pattern) ==
  \E k \in 1..(Len(text) - Len(pattern) + 1) :
    \A j \in 1..Len(pattern) : HoldsAtom(text[k + j - 1], pattern[j])
StrCount(text, atom) == Cardinality({k \in 1..Len(text) : text[k] = atom})
StrHasPrefix(text, pattern) ==
  Len(text) >= Len(pattern) /\ SubSeq(text, 1, Len(pattern)) = pattern
StrHasSuffix(text, pattern) ==
  Len(text) >= Len(pattern)
    /\ SubSeq(text, Len(text) - Len(pattern) + 1, Len(text)) = pattern
\* strings.TrimSpace, and the white space it cuts off on either side
RECURSIVE Lead(_)
Lead(text) ==
  IF text # <<>> /\ Head(text) \in WhiteSpace THEN <<Head(text)>> \o Lead(Tail(text)) ELSE <<>>
RECURSIVE Trail(_)
Trail(text) ==
  IF text # <<>> /\ text[Len(text)] \in WhiteSpace
  THEN Trail(SubSeq(text, 1, Len(text) - 1)) \o <<text[Len(text)]>>
  ELSE <<>>
TrimSpace(text) ==
  IF Len(Lead(text)) = Len(text) THEN <<>>
  ELSE SubSeq(text, Len(Lead(text)) + 1, Len(text) - Len(Trail(text)))
\* strings.Split(code, "\n") and strings.Join(lines, "\n")
RECURSIVE Split(_)
Split(text) ==
  IF \A k \in 1..Len(text) : text[k] # "\n" THEN <<text>>
  ELSE LET k == CHOOSE i \in 1..Len(text) :
                  text[i] = "\n" /\ \A j \in 1..(i - 1) : text[j] # "\n"
       IN  <<SubSeq(text, 1, k - 1)>> \o Split(SubSeq(text, k + 1, Len(text)))
RECURSIVE Join(_)
Join(lines) ==
  IF Len(lines) = 1 THEN lines[1] ELSE lines[1] \o <<"\n">> \o Join(Tail(lines))
\* strings.Replace(line, trimmed, text, 1) for trimmed = TrimSpace(line)
ReplaceTrimmed(line, text) == Lead(line) \o text \o Trail(line)

\* functions.go:1271-1297  a line that starts with return outside a block
\* opened on a line holding the word function loses the return and its
\* closing semicolon
RECURSIVE FixReturns(_, _, _)
FixReturns(lines, functionDepth, inFunction) ==
  IF lines = <<>> THEN <<>>
  ELSE LET line == Head(lines)
           trimmed == TrimSpace(line)
           counted == functionDepth + StrCount(line, "{") - StrCount(line, "}")
           entered == inFunction
                        \/ (StrContains(line, <<"function">>) /\ StrContains(line, <<"{">>))
           depth == IF counted <= 0 THEN 0 ELSE counted
           inside == entered /\ counted > 0
           returnExpr == SubSeq(trimmed, 3, Len(trimmed))
           fixed ==
             IF StrHasPrefix(trimmed, <<"return", " ">>) /\ ~inside
             THEN ReplaceTrimmed(line,
                    IF StrHasSuffix(returnExpr, <<";">>)
                    THEN SubSeq(returnExpr, 1, Len(returnExpr) - 1) ELSE returnExpr)
             ELSE line
       IN  <<fixed>> \o FixReturns(Tail(lines), depth, inside)
CleanUp(code) == Join(FixReturns(Split(TrimSpace(code)), 0, FALSE))

\* functions.go:1214  the regular expression \.map\([^)]*=>\s*\{\s*([^}]+)\s*\}
\* matched at atom i: the atom that ends the match, 0 when there is none.
\* [^)]* is greedy, so the last arrow that lets the rest match is taken; the
\* body then runs to the first closing brace.
AfterSpace(text, j) ==
  IF \E k \in (j + 1)..Len(text) : text[k] \notin WhiteSpace
  THEN CHOOSE k \in (j + 1)..Len(text) :
         text[k] \notin WhiteSpace /\ \A m \in (j + 1)..(k - 1) : text[m] \in WhiteSpace
  ELSE 0
FirstClose(text, b) ==
  IF \E e \in (b + 1)..Len(text) : text[e] = "}"
  THEN CHOOSE e \in (b + 1)..Len(text) :
         text[e] = "}" /\ \A m \in (b + 1)..(e - 1) : text[m] # "}"
  ELSE 0
BodyEnd(text, j) ==
  LET b == AfterSpace(text, j) IN
    IF b = 0 \/ text[b] # "{" THEN 0
    ELSE IF FirstClose(text, b) > b + 1 THEN FirstClose(text, b) ELSE 0
Arrows(text, i) ==
  {j \in (i + 1)..Len(text) :
     /\ text[j] = "=>"
     /\ \A k \in (i + 1)..(j - 1) : text[k] # ")"
     /\ BodyEnd(text, j) # 0}
MatchEnd(text, i) ==
  IF text[i] # ".map(" \/ Arrows(text, i) = {} THEN 0
  ELSE BodyEnd(text, CHOOSE j \in Arrows(text, i) : \A k \in Arrows(text, i) : k <= j)
\* :1216-1235  what a match is replaced by
FixMatch(match) ==
  IF StrContains(match, <<"return">>) THEN match
  ELSE LET braceStart == CHOOSE k \in 1..Len(match) :
                           match[k] = "{" /\ \A m \in 1..(k - 1) : match[m] # "{"
           braceEnd == Len(match)
           content == TrimSpace(SubSeq(match, braceStart + 1, braceEnd - 1))
       IN  IF StrContains(content, <<":">>) /\ ~StrContains(content, <<";">>)
           THEN SubSeq(match, 1, braceStart)
                  \o <<" ", "return", " ", "{", " ">> \o content \o <<" ", "}", ";", " ">>
                  \o <<"}">>
           ELSE match
\* ReplaceAllStringFunc: every match from left to right, none overlapping
RECURSIVE FixMaps(_)
FixMaps(text) ==
  IF \A i \in 1..Len(text) : MatchEnd(text, i) = 0 THEN text
  ELSE LET i == CHOOSE k \in 1..Len(text) :
                  MatchEnd(text, k) # 0 /\ \A m \in 1..(k - 1) : MatchEnd(text, m) = 0
           e == MatchEnd(text, i)
       IN  SubSeq(text, 1, i - 1) \o FixMatch(SubSeq(text, i, e))
             \o FixMaps(SubSeq(text, e + 1, Len(text)))
\* :1243-1256  a line that is an object literal on its own becomes a comment
FixStandalone(line) ==
  LET trimmed == TrimSpace(line) IN
    IF /\ StrHasPrefix(trimmed, <<"{">>) /\ StrHasSuffix(trimmed, <<"}">>)
       /\ StrContains(trimmed, <<":">>) /\ ~StrContains(trimmed, <<"return">>)
       /\ ~StrContains(trimmed, <<"=">>)
    THEN ReplaceTrimmed(line, <<"//", " ", "Fixed:", " ">> \o trimmed
                                \o <<" ", "(was standalone object)">>)
    ELSE line
\* autoFixJavaScript: the code it returns
autoFixJavaScript(code) ==
  LET lines == Split(FixMaps(code)) IN
    Join([k \in 1..Len(lines) |-> FixStandalone(lines[k])])

\* :1171-1192  the lines from i on, at most ten: the braces left open and
\* whether a line holds "return "
RECURSIVE ScanCallback(_, _, _, _, _)
ScanCallback(lines, i, j, braceCount, hasReturn) ==
  IF j > Len(lines) \/ j >= i + 10 THEN [braceCount |-> braceCount, hasReturn |-> hasReturn]
  ELSE LET count == braceCount + StrCount(lines[j], "{") - StrCount(lines[j], "}")
           found == hasReturn \/ StrContains(lines[j], <<"return", " ">>)
       IN  IF count <= 0 /\ j > i THEN [braceCount |-> count, hasReturn |-> found]
           ELSE ScanCallback(lines, i, j + 1, count, found)
\* :1163-1202  the defect validateJavaScriptSyntax finds in line i, "" for none
LineDefect(lines, i) ==
  LET line == lines[i]
      trimmed == TrimSpace(line)
      scan == ScanCallback(lines, i, i, 0, FALSE)
  IN  IF trimmed = <<>> \/ StrHasPrefix(trimmed, <<"//">>) THEN ""
      ELSE IF /\ StrContains(line, <<".map(">>) /\ StrContains(line, <<"=>", " ", "{">>)
              /\ ~scan.hasReturn /\ scan.braceCount <= 0
      THEN "return missing in the callback of map()"
      ELSE IF /\ StrCount(trimmed, "{") > 0 /\ StrCount(trimmed, "}") = 0
              /\ ~StrHasSuffix(trimmed, <<"{">>)
              /\ StrContains(trimmed, <<":">>) /\ ~StrContains(trimmed, <<"return">>)
      THEN "wrong object syntax"
      ELSE ""
\* validateJavaScriptSyntax: the first defect, "" when the code passes
validateJavaScriptSyntax(code) ==
  LET lines == Split(code)
      bad == {i \in 1..Len(lines) : LineDefect(lines, i) # ""}
  IN  IF bad = {} THEN ""
      ELSE LineDefect(lines, CHOOSE i \in bad : \A k \in bad : i <= k)
\* :1271-1337  the code that is validated and run, and the defect found
SyntaxGuard(text) ==
  LET code == autoFixJavaScript(CleanUp(text)) IN
    [code |-> code, err |-> validateJavaScriptSyntax(code)]

\* the code the model collaborator writes for output(items.map(callback)):
\* the parameter x or (x), a flat or a nested object literal as the body, with
\* or without return, on one line or on lines of its own, and, for some, a
\* first line that calls a write capability
ObjectLiteral(body) ==
  IF body = "flat" THEN <<"title", ":", " ", "x.title">>
  ELSE <<"a", ":", " ", "{", " ", "b", ":", " ", "1", " ", "}">>
CallbackBody(body, return, layout) ==
  IF layout = "line"
  THEN IF return
       THEN <<"{", " ", "return", " ", "{", " ">> \o ObjectLiteral(body)
              \o <<" ", "}", ";", " ", "}">>
       ELSE <<"{", " ">> \o ObjectLiteral(body) \o <<" ", "}">>
  ELSE IF return
       THEN <<"{", "\n", " ", " ", "return", " ", "{", " ">> \o ObjectLiteral(body)
              \o <<" ", "}", ";", "\n", "}">>
       ELSE <<"{", "\n", " ", " ">> \o ObjectLiteral(body) \o <<"\n", "}">>
MapCall(first, params, body, return, layout) ==
  (IF first = "" THEN <<>> ELSE <<"teamwork.deleteProject(", "1", ")", "\n">>)
    \o <<"output(", "items", ".map(">>
    \o (IF params = "x" THEN <<"x">> ELSE <<"(", "x", ")">>)
    \o <<" ", "=>", " ">> \o CallbackBody(body, return, layout) \o <<")", ")">>
MapCalls ==
  {[first |-> "", params |-> p, body |-> b, return |-> r, layout |-> l] :
     p \in {"x", "(x)"}, b \in {"flat", "nested"}, r \in BOOLEAN, l \in {"line", "lines"}}
    \cup {[first |-> "teamwork.deleteProject(1)", params |-> p, body |-> "flat",
            return |-> FALSE, layout |-> "line"] : p \in {"x", "(x)"}}
TextOf(call) == MapCall(call.first, call.params, call.body, call.return, call.layout)

\* a script: whether the parameter code is a string, whether the checks
\* before the run and the parser accept it, its statements, and the value of
\* its last expression; text is the code as written and run the code handed
\* to the interpreter, for the scripts whose text is followed
Script(code, body, final) ==
  [code |-> code, body |-> body, final |-> final, text |-> <<>>, run |-> <<>>]

\* a text without its white space
RECURSIVE Squeeze(_)
Squeeze(text) ==
  IF text = <<>> THEN <<>>
  ELSE IF Head(text) \in WhiteSpace THEN Squeeze(Tail(text))
  ELSE <<Head(text)>> \o Squeeze(Tail(text))
\* vm.RunString parses the code: of the texts that arise here the parser
\* accepts those that are, up to white space, one of the calls as written
Written(code) == {call \in MapCalls : Squeeze(TextOf(call)) = Squeeze(code)}
Parses(code) == Written(code) # {}
\* what the code does when it runs: the capability call of its first line,
\* then output() of the mapped array, whose entries are the objects the
\* callback returns or undefined
Meaning(code) ==
  LET call == CHOOSE c \in Written(code) : TRUE IN
    (IF call.first = "" THEN <<>> ELSE <<SCall("deleteProject", <<JsInt(1)>>)>>)
      \o <<SOutput(<<JsArr(IF call.return THEN "objects" ELSE "undefined", 1)>>)>>
\* :1265-1337, 1904  the script a text makes
TextScript(text) ==
  LET guard == SyntaxGuard(text)
      body == IF Parses(guard.code) THEN Meaning(guard.code) ELSE <<>>
      code == IF guard.err # "" THEN "rejected"
              ELSE IF Parses(guard.code) THEN "ok" ELSE "unparsable"
  IN  [Script(code, body, JsUndefined) EXCEPT !.text = text, !.run = guard.code]

\* the errors an invocation returns
InvalidCodeError == <<"invalid code parameter">>
SyntaxError == <<"syntax error in JavaScript:", "line">>
RuntimeError(err) == <<"computation error:">> \o err
\* a timeout reported the way a failed run is
TimeoutAsRuntimeError(timeout) == RuntimeError(<<"timeout", ToString(timeout)>>)
TimeoutError(timeout) == <<"computation took too long", ToString(timeout), "sec">>
\* :1897-1901  what the worker's recover makes of a panic
PanicError == <<"panic:", "runtime error">>
ThrownError == <<"Error:", "boom">>
ParseError == <<"SyntaxError:", "unexpected token">>

\* :1913-1952  the three returns of the select
NoReturn == [kind |-> "", messages |-> <<>>, output |-> <<>>, err |-> <<>>]
Failure(kind, err) == [kind |-> kind, messages |-> <<>>, output |-> <<>>, err |-> err]
\* a response without the entry for a silent script
BundleWithoutFallback(userMessages, outputData, result) ==
  [kind |-> "success", messages |-> userMessages, output |-> outputData, err |-> <<>>]
\* a response that relays the messages newest first
BundleReversed(userMessages, outputData, result) ==
  [kind |-> "success",
   messages |-> [i \in 1..Len(userMessages) |-> userMessages[Len(userMessages) + 1 - i]],
   output |-> IF outputData = <<>> /\ userMessages = <<>> THEN <<ResultText(result)>>
              ELSE outputData,
   err |-> <<>>]
\* :1919-1952  the response of a completed run
Bundle(userMessages, outputData, result) ==
  [kind |-> "success", messages |-> userMessages,
   output |-> IF outputData = <<>> /\ userMessages = <<>> THEN <<ResultText(result)>>
              ELSE outputData,
   err |-> <<>>]

\* an interpreter that is kept from one invocation to the next
ReusedVM(previous) ==
  [userMessages |-> previous.userMessages, outputData |-> previous.outputData,
   globals |-> previous.globals]
\* :1342-1347  goja.New() and the two accumulators of an invocation
FreshVM(previous) == [userMessages |-> <<>>, outputData |-> <<>>, globals |-> {}]

\* main's loop before the first update: queue holds the updates that have
\* arrived and wait, each with the number of its arrival; started counts the
\* handlers main has called, current is the number of the update it took last
NoMain == [queue |-> <<>>, arrived |-> 0, started |-> 0, current |-> 0]

\* no invocation yet
NoInvocation ==
  [n |-> 0, user |-> 0, script |-> Script("ok", <<>>, JsUndefined), timeout |-> 0,
   caller |-> "idle", worker |-> "none", pc |-> 0,
   userMessages |-> <<>>, outputData |-> <<>>, globals |-> {},
   resultChan |-> <<>>, errChan |-> <<>>, ctxDone |-> FALSE, timers |-> <<>>,
   request |-> Absent, emitted |-> <<>>, emittedOut |-> <<>>, registered |-> {},
   listed |-> <<>>, fetched |-> <<>>, ret |-> NoReturn]

\* the user turn the continuation loop handles: n counts the turns, round
\* the sandbox invocations of this turn, relayed holds the messages handed to
\* the messaging collaborator as <<round, text>>, prevOutput the continuation
\* input of the running round
NoTurn ==
  [n |-> 0, phase |-> "idle", user |-> 0, round |-> 0, relayed |-> <<>>,
   prevOutput |-> <<>>]

\* ------------------------------------------------------------ the state
VARIABLES
  clock,              \* the current reading of time.Now().UnixNano()
  pendingOperations,  \* the registry: operation id -> PendingOperation
  db,                 \* the persistence store
  cb,                 \* per goroutine, where it stands inside HandleCallbackQuery
  last,               \* what the last step did (handler, input, outcome)
  executions,         \* per operation id, how often executeOperation ran for it
  resolved,           \* the ids whose record HandleCallbackQuery has removed
  inv,                \* the running or last invocation of executeJavaScriptDirect
  leaked,             \* goroutines of earlier invocations that still run
  host,               \* the host process: "up" or "crashed"
  sent,               \* what was sent to the chats by processTextMessage
  turn,               \* the user turn the continuation loop is handling
  main,               \* main's loop: the updates that wait and those it took
  messagesTable       \* the table messages, oldest row first

vars ==
  <<clock, pendingOperations, db, cb, last, executions, resolved, inv, leaked, host, sent,
    turn, main, messagesTable>>
\* the state of the sandbox and of the message handler
jsvars == <<inv, leaked, host, sent, turn, main, messagesTable>>

AllIDs == {generateOperationID(c) : c \in 0..MaxClock}
\* the chats a callback query or a message can come from
ChatIDs == {10}
\* goroutines that may run HandleCallbackQuery at the same time
Threads == {1, 2}

\* ---------------------------------------------------------------- events
NoEvent ==
  [kind |-> "init", branch |-> "", thread |-> 0, data |-> <<>>, from |-> 0, chat |-> 0,
   failure |-> "", saved |-> <<>>,
   answer |-> "", opid |-> <<>>, op |-> NoOp, exec |-> <<>>,
   user |-> 0, fn |-> "", args |-> <<>>, fault |-> "", ret |-> NoProposal]

\* ------------------------------------------------- parsing callback data
\* len(token) for the parts that occur in callback data
TokenLen(tok) ==
  CASE tok \in {"confirm", "project", "suggest"} -> 7
    [] tok \in {"cancel", "create", "button", "custom", "delete"} -> 6
    [] tok = "confirmation" -> 12
    [] tok = "hello" -> 5
    [] tok \in {"op", "ok"} -> 2
    [] tok = "" -> 0
    [] OTHER -> 1
\* len(data): the parts and the "_" between them
RECURSIVE DataLen(_)
DataLen(data) ==
  IF Len(data) = 0 THEN 0
  ELSE IF Len(data) = 1 THEN TokenLen(data[1])
  ELSE TokenLen(data[1]) + 1 + DataLen(Tail(data))
\* strings.HasPrefix(data, "a_b_")
HasPrefix2(data, a, b) == Len(data) >= 3 /\ data[1] = a /\ data[2] = b
\* strings.TrimPrefix(data, "a_b_") and strings.Join(parts[1:], "_")
Rest(data, n) == SubSeq(data, n + 1, Len(data))
\* the rest as one string; the inputs hold no project name with a "_"
JoinName(parts) == IF Len(parts) = 1 THEN parts[1] ELSE "_"

\* if len(data) < 7
MinDataLen == 7

\* ------------------------------------- HandleCallbackQuery, step by step
\* the outcome of a handler: how it returned, what it answered, the registry
\* and the store it leaves, the execute calls it made, the rows it appended
\* to the table messages, whether it did I/O
Outcome(branch, answer, reg, d, exec, saved, io) ==
  [branch |-> branch, answer |-> answer, reg |-> reg, db |-> d, exec |-> exec,
   saved |-> saved, io |-> io]

\* an owner check that lets every known user through
AuthorizeAnyUser(from, op, userErr) ==
  IF userErr THEN "user lookup failed"
  ELSE IF UserOfTg(from) = 0 THEN "user not found"
  ELSE ""

\* :432-448  db.GetUserByTgID and the owner check; "" when the user may resolve
Authorize(from, op, userErr) ==
  IF userErr THEN "user lookup failed"
  ELSE IF UserOfTg(from) = 0 THEN "user not found"
  ELSE IF UserOfTg(from) # op.UserID THEN "permission denied"
  ELSE ""

\* a handler that deletes the record only once the execution succeeded
ResolveKeepOnFailure(reg, d, op, operationID, action, dbErr) ==
  LET result == executeOperation(d, op, dbErr)
      reg1 == IF action = "confirm" /\ ~result.Success THEN reg
              ELSE Delete(reg, operationID)
  IN IF action = "confirm"
     THEN Outcome(IF result.Success THEN "confirm_ok" ELSE "confirm_failed",
                  IF result.Success THEN "operation done" ELSE "operation failed",
                  reg1, result.db,
                  <<[routine |-> result.routine, op |-> op]>>,
                  Remember(<<>>, op.UserID, op.ChatID, "assistant", result.Message), TRUE)
     ELSE IF action = "cancel"
     THEN Outcome("cancel", "operation cancelled", reg1, d, <<>>,
                  Remember(<<>>, op.UserID, op.ChatID, "assistant", <<"Operation cancelled">>),
                  TRUE)
     ELSE Outcome("other", "", reg1, d, <<>>, <<>>, TRUE)

\* a handler whose cancel answers but leaves the record in the registry
ResolveCancelKeeps(reg, d, op, operationID, action, dbErr) ==
  LET reg1 == Delete(reg, operationID)
      result == executeOperation(d, op, dbErr)
  IN IF action = "confirm"
     THEN Outcome(IF result.Success THEN "confirm_ok" ELSE "confirm_failed",
                  IF result.Success THEN "operation done" ELSE "operation failed",
                  reg1, result.db,
                  <<[routine |-> result.routine, op |-> op]>>,
                  Remember(<<>>, op.UserID, op.ChatID, "assistant", result.Message), TRUE)
     ELSE IF action = "cancel"
     THEN Outcome("cancel", "operation cancelled", reg, d, <<>>,
                  Remember(<<>>, op.UserID, op.ChatID, "assistant", <<"Operation cancelled">>),
                  TRUE)
     ELSE Outcome("other", "", reg1, d, <<>>, <<>>, TRUE)

\* a handler whose cancel carries the operation out before it answers
ResolveCancelRuns(reg, d, op, operationID, action, dbErr) ==
  LET reg1 == Delete(reg, operationID)
      result == executeOperation(d, op, dbErr)
  IN IF action = "confirm"
     THEN Outcome(IF result.Success THEN "confirm_ok" ELSE "confirm_failed",
                  IF result.Success THEN "operation done" ELSE "operation failed",
                  reg1, result.db,
                  <<[routine |-> result.routine, op |-> op]>>,
                  Remember(<<>>, op.UserID, op.ChatID, "assistant", result.Message), TRUE)
     ELSE IF action = "cancel"
     THEN Outcome("cancel", "operation cancelled", reg1, result.db, <<>>,
                  Remember(<<>>, op.UserID, op.ChatID, "assistant", <<"Operation cancelled">>),
                  TRUE)
     ELSE Outcome("other", "", reg1, d, <<>>, <<>>, TRUE)

\* :450-521  delete the record, then act on the action token
Resolve(reg, d, op, operationID, action, dbErr) ==
  LET reg1 == Delete(reg, operationID)
      result == executeOperation(d, op, dbErr)
  IN IF action = "confirm"
     THEN Outcome(IF result.Success THEN "confirm_ok" ELSE "confirm_failed",
                  IF result.Success THEN "operation done" ELSE "operation failed",
                  reg1, result.db,
                  <<[routine |-> result.routine, op |-> op]>>,
                  Remember(<<>>, op.UserID, op.ChatID, "assistant", result.Message), TRUE)
     ELSE IF action = "cancel"
     THEN Outcome("cancel", "operation cancelled", reg1, d, <<>>,
                  Remember(<<>>, op.UserID, op.ChatID, "assistant", <<"Operation cancelled">>),
                  TRUE)
     ELSE Outcome("other", "", reg1, d, <<>>, <<>>, TRUE)

\* :309-374, :376-405  the buttons that are not confirmations
CreateProjectButton(reg, d) ==
  Outcome("create_project_button", "send the name", reg, d, <<>>, <<>>, TRUE)

SuggestProject(reg, d, data, from, chat, userErr, dbErr) ==
  LET projectName == JoinName(Rest(data, 2))
      userID == UserOfTg(from)
      r == CreateProject(d, userID, projectName, "")
  IN IF userErr THEN Outcome("suggest_usererr", "create error", reg, d, <<>>, <<>>, TRUE)
     ELSE IF userID = 0
     THEN Outcome("suggest_nouser", "user not found", reg, d, <<>>, <<>>, TRUE)
     ELSE IF dbErr THEN Outcome("suggest_failed", "create error", reg, d, <<>>, <<>>, TRUE)
     ELSE Outcome("suggest_ok", "project created", reg, r.db, <<>>,
                  Remember(<<>>, userID, chat, "assistant", <<"Project created", projectName>>),
                  TRUE)

CustomButton(reg, d, data, from, chat, userErr) ==
  IF userErr THEN Outcome("custom_usererr", "user error", reg, d, <<>>, <<>>, TRUE)
  ELSE IF UserOfTg(from) = 0
  THEN Outcome("custom_nouser", "user not found", reg, d, <<>>, <<>>, TRUE)
  ELSE Outcome("custom", "", reg, d, <<>>,
               SaveMessage(<<>>, UserOfTg(from), chat, "user", Rest(data, 2)), TRUE)

\* parts[0] and strings.Join(parts[1:], "_")
ActionOf(data) == data[1]
OperationIDOf(data) == Rest(data, 1)

\* the whole handler, run by one goroutine without interruption
HandleOutcome(reg, d, data, from, chat, userErr, dbErr) ==
  IF data = <<"create", "project", "button">> THEN CreateProjectButton(reg, d)
  ELSE IF HasPrefix2(data, "suggest", "project")
  THEN SuggestProject(reg, d, data, from, chat, userErr, dbErr)
  ELSE IF HasPrefix2(data, "custom", "button")
  THEN CustomButton(reg, d, data, from, chat, userErr)
  ELSE IF DataLen(data) < MinDataLen THEN Outcome("short", "", reg, d, <<>>, <<>>, FALSE)
  ELSE IF Len(data) < 2 THEN Outcome("noparts", "", reg, d, <<>>, <<>>, FALSE)
  ELSE IF OperationIDOf(data) \notin DOMAIN reg
  THEN Outcome("notfound", "operation not found or already done", reg, d, <<>>, <<>>, TRUE)
  ELSE LET op == reg[OperationIDOf(data)]
           denied == Authorize(from, op, userErr)
       IN IF denied # "" THEN Outcome("denied", denied, reg, d, <<>>, <<>>, TRUE)
          ELSE Resolve(reg, d, op, OperationIDOf(data), ActionOf(data), dbErr)

\* ------------------------------------------------------------- the inputs
\* a number with a fractional part between x and x+1 (goja valueFloat)
JsFrac(x) == [t |-> "float", s |-> "", n |-> x, f |-> NoFields]

\* the capability calls a script makes
CallInputs ==
  {[fn |-> "createProject", args |-> a] :
      a \in {<<>>, <<JsStr("Site")>>, <<JsStr("Site"), JsStr("desc")>>, <<JsInt(1)>>}}
  \cup {[fn |-> "updateProject", args |-> a] :
      a \in {<<>>, <<JsInt(1)>>, <<JsInt(1), JsObj(Fields1("title", JsStr("B")))>>,
             <<JsStr("abc")>>, <<JsUndefined>>, <<JsInt(1), JsNull>>,
             <<JsInt(1), JsObj(Fields1("project_id", JsInt(2)))>>}}
  \cup {[fn |-> "deleteProject", args |-> a] :
      a \in {<<>>, <<JsInt(1)>>, <<JsStr("abc")>>}}
  \cup {[fn |-> "createTask", args |-> a] :
      a \in {<<>>, <<JsStr("T2")>>, <<JsStr("T2"), JsObj(Fields1("project_id", JsInt(1)))>>,
             <<JsStr("T2"), JsObj(Fields1("project_id", JsFrac(1)))>>}}
  \cup {[fn |-> "updateTask", args |-> a] :
      a \in {<<>>, <<JsInt(1)>>, <<JsInt(1), JsObj(Fields1("status", JsStr("done")))>>,
             <<JsStr("abc")>>}}
  \cup {[fn |-> "deleteTask", args |-> a] : a \in {<<>>, <<JsInt(1)>>, <<JsNull>>}}
  \cup {[fn |-> "setCurrentProject", args |-> a] :
      a \in {<<>>, <<JsInt(1)>>, <<JsStr("1")>>}}
  \cup {[fn |-> "sendMessageWithButtons", args |-> a] :
      a \in {<<JsStr("hi")>>, <<JsStr("hi"), JsArr("ok", 1)>>,
             <<JsStr("hi"), JsArr("notext", 1)>>, <<JsStr("hi"), JsArr("noaction", 1)>>,
             <<JsStr("hi"), JsArr("undefined", 1)>>, <<JsStr("hi"), JsArr("ok", 7)>>,
             <<JsStr("hi"), JsInt(5)>>, <<JsStr("hi"), JsUndefined>>}}

\* the calls of the scripts that run between callbacks: for every kind of
\* operation a call that registers it, and calls that fault
TurnCalls ==
  {[user |-> 1, fn |-> "createProject", args |-> <<JsStr("Site"), JsStr("desc")>>],
   [user |-> 1, fn |-> "updateProject",
    args |-> <<JsInt(1), JsObj(Fields1("title", JsStr("B")))>>],
   [user |-> 1, fn |-> "deleteProject", args |-> <<JsInt(1)>>],
   [user |-> 1, fn |-> "deleteProject", args |-> <<>>],
   [user |-> 1, fn |-> "sendMessageWithButtons", args |-> <<JsStr("hi"), JsArr("ok", 1)>>],
   [user |-> 2, fn |-> "createTask",
    args |-> <<JsStr("T2"), JsObj(Fields1("project_id", JsFrac(1)))>>],
   [user |-> 2, fn |-> "updateTask",
    args |-> <<JsInt(1), JsObj(Fields1("status", JsStr("done")))>>],
   [user |-> 2, fn |-> "updateTask",
    args |-> <<JsInt(1), JsObj(Fields1("deadline", JsStr("soon")))>>],
   [user |-> 2, fn |-> "updateTask",
    args |-> <<JsInt(1), JsObj(Fields1("deadline", JsStr("")))>>],
   [user |-> 2, fn |-> "deleteTask", args |-> <<JsInt(1)>>],
   [user |-> 2, fn |-> "setCurrentProject", args |-> <<JsInt(1)>>]}

\* the callback data a client sends
ResolveData == {<<a>> \o id : a \in {"confirm", "cancel", "delete"}, id \in AllIDs}
\* the action texts of custom buttons: a word, and texts that read like the
\* data of a confirmation
ButtonActions ==
  {<<"hello">>} \cup {<<a>> \o id : a \in {"confirm", "cancel"}, id \in AllIDs}
\* a keyboard whose buttons carry the action text as it is
ButtonDataBare(action) == action
\* :1126-1129  callbackData := fmt.Sprintf("custom_button_%s", action)
ButtonData(action) == <<"custom", "button">> \o action
CallbackData ==
  ResolveData
  \cup {<<"create", "project", "button">>, <<"suggest", "project", "P">>,
        <<"ok">>, <<"confirmation">>}
  \cup {ButtonData(action) : action \in ButtonActions}

\* ------------------------------------------------------------------- Init
InitDB ==
  [projects |-> (1 :> [title |-> "A", description |-> "", status |-> "active"]),
   project_users |-> {[project_id |-> 1, user_id |-> 1, role |-> "owner"],
                      [project_id |-> 1, user_id |-> 2, role |-> "member"]},
   tasks |-> (1 :> [project_id |-> 1, user_id |-> 2, title |-> "T", description |-> "",
                    status |-> "todo", priority |-> "medium",
                    deadline |-> "2025-01-01 10:00", completed |-> FALSE]),
   current |-> (1 :> 1 @@ 2 :> 0),
   nextProject |-> 2,
   nextTask |-> 2]

IdleThread == [pc |-> "idle", data |-> <<>>, from |-> 0, op |-> NoOp]

Constructed ==
  /\ clock = 0
  /\ pendingOperations = [id \in {} |-> NoOp]
  /\ db = InitDB
  /\ cb = [t \in Threads |-> IdleThread]
  /\ last = NoEvent
  /\ executions = [id \in AllIDs |-> 0]
  /\ resolved = {}
  /\ inv = NoInvocation
  /\ leaked = <<>>
  /\ host = "up"
  /\ sent = {}
  /\ turn = NoTurn
  /\ main = NoMain
\* the bot starts on an empty table messages
Init == Constructed /\ messagesTable = <<>>

\* ---------------------------------------------------------------- actions
\* time passes
Tick ==
  /\ clock < MaxClock
  /\ clock' = clock + 1
  /\ last' = [NoEvent EXCEPT !.kind = "tick"]
  /\ UNCHANGED <<pendingOperations, db, cb, executions, resolved>>
  /\ UNCHANGED jsvars

\* a script that executeJavaScriptDirect runs for userID calls teamwork.<fn>(args)
ScriptCall(userID, fn, args) ==
  /\ clock < MaxClock
  /\ \E r \in {CallCapability(fn, pendingOperations, userID, args, clock)} :
     /\ pendingOperations' = r.reg
     /\ last' = [NoEvent EXCEPT !.kind = "call", !.fn = fn, !.args = args,
                               !.user = userID, !.fault = r.fault, !.ret = r.ret]
  /\ UNCHANGED <<clock, db, cb, executions, resolved>>
  /\ UNCHANGED jsvars

\* the callbacks that may INSERT a row run while the clock runs
Insertable(reg, data) ==
  (\/ HasPrefix2(data, "suggest", "project")
   \/ /\ ActionOf(data) = "confirm"
      /\ OperationIDOf(data) \in DOMAIN reg
      /\ Inserts(reg[OperationIDOf(data)]))
  => clock < MaxClock

Removed(branch) == branch \in {"confirm_ok", "confirm_failed", "cancel", "other"}
Counted(exec, opid) ==
  [id \in AllIDs |-> IF id = opid THEN executions[id] + Len(exec) ELSE executions[id]]

\* what can go wrong outside the program while a callback is handled
Failures == {"none", "user", "db"}
\* the returns that come after db.GetUserByTgID, and those after a write
Asked(branch) == branch \notin {"create_project_button", "short", "noparts", "notfound"}
Wrote(branch) == branch \in {"confirm_ok", "confirm_failed", "suggest_ok", "suggest_failed"}
\* the sender and the failure as far as the handler got to see them
Seen(branch, from, failure) ==
  [from |-> IF Asked(branch) THEN from ELSE 0,
   failure |-> IF failure = "user" /\ Asked(branch) THEN "user"
               ELSE IF failure = "db" /\ Wrote(branch) THEN "db" ELSE "none"]

\* main's loop hands one callback query to HandleCallbackQuery and waits for it
Callback(data, from, chat, failure) ==
  /\ \A t \in Threads : cb[t].pc = "idle"
  /\ Insertable(pendingOperations, data)
  /\ \E o \in {HandleOutcome(pendingOperations, db, data, from, chat,
                              failure = "user", failure = "db")},
          opid \in {OperationIDOf(data)} :
     /\ clock' = IF o.io /\ clock < MaxClock THEN clock + 1 ELSE clock
     /\ pendingOperations' = o.reg
     /\ db' = o.db
     /\ executions' = Counted(o.exec, opid)
     /\ resolved' = IF Removed(o.branch) THEN resolved \cup {opid} ELSE resolved
     /\ last' = [NoEvent EXCEPT !.kind = "callback", !.branch = o.branch, !.data = data,
                   !.from = Seen(o.branch, from, failure).from,
                   !.failure = Seen(o.branch, from, failure).failure,
                   !.answer = o.answer, !.opid = opid,
                   !.op = IF opid \in DOMAIN pendingOperations
                          THEN pendingOperations[opid] ELSE NoOp,
                   !.exec = o.exec, !.saved = o.saved]
  /\ UNCHANGED cb
  /\ UNCHANGED <<inv, leaked, host, sent, turn, main>>
\* the handler, the table messages left aside: the rows it appends are in
\* last.saved
HandleCallbackQuery(data, from, chat, failure) ==
  Callback(data, from, chat, failure) /\ UNCHANGED messagesTable

\* the senders and failures worth telling apart for a callback: an input the
\* handler does not get to read is not varied
AsksUser(reg, data) ==
  \/ HasPrefix2(data, "suggest", "project")
  \/ HasPrefix2(data, "custom", "button")
  \/ Len(data) >= 2 /\ OperationIDOf(data) \in DOMAIN reg
Writes(reg, data) ==
  \/ HasPrefix2(data, "suggest", "project")
  \/ Len(data) >= 2 /\ OperationIDOf(data) \in DOMAIN reg /\ ActionOf(data) = "confirm"
Senders(reg, data) == IF AsksUser(reg, data) THEN TgIDs ELSE {1}
FailuresOf(reg, data) ==
  {"none"} \cup (IF AsksUser(reg, data) THEN {"user"} ELSE {})
           \cup (IF Writes(reg, data) THEN {"db"} ELSE {})

Next ==
  \/ Tick
  \/ \E c \in TurnCalls : ScriptCall(c.user, c.fn, c.args)
  \/ \E data \in CallbackData, chat \in ChatIDs :
       \E from \in Senders(pendingOperations, data),
          failure \in FailuresOf(pendingOperations, data) :
         HandleCallbackQuery(data, from, chat, failure)

Spec == Init /\ [][Next]_vars

\* ------------------------------------------- scripts alone, every input
\* one script after the other calls the capabilities, with every input of
\* CallInputs, at one reading of the clock
NextScript == \E u \in UserIDs, c \in CallInputs : ScriptCall(u, c.fn, c.args)

SpecScript == Init /\ [][NextScript]_vars

\* ----------------------------- HandleCallbackQuery on several goroutines
\* Each goroutine runs the handler's steps on its own; the registry is a
\* plain map that the steps read and write without a lock.
\* :407-430  parse the data and look the record up
Lookup(t, data, from) ==
  /\ cb[t].pc = "idle"
  /\ \E opid \in {OperationIDOf(data)} :
       IF opid \in DOMAIN pendingOperations
       THEN /\ cb' = [cb EXCEPT ![t] = [pc |-> "authorize", data |-> data, from |-> from,
                                       op |-> pendingOperations[opid]]]
            /\ last' = [NoEvent EXCEPT !.kind = "lookup", !.thread = t, !.data = data,
                                      !.opid = opid, !.op = pendingOperations[opid]]
       ELSE /\ cb' = cb
            /\ last' = [NoEvent EXCEPT !.kind = "lookup", !.thread = t, !.data = data,
                                      !.opid = opid, !.branch = "notfound",
                                      !.answer = "operation not found or already done"]
  /\ UNCHANGED <<clock, pendingOperations, db, executions, resolved>>
  /\ UNCHANGED <<inv, leaked, host, sent, turn, messagesTable>>
CbLookup(t, data, from) == Lookup(t, data, from) /\ UNCHANGED main

\* :432-448  ask the store for the sender and compare with the owner
CbAuthorize(t, userErr) ==
  /\ cb[t].pc = "authorize"
  /\ \E denied \in {Authorize(cb[t].from, cb[t].op, userErr)} :
       /\ cb' = [cb EXCEPT ![t] = IF denied = "" THEN [@ EXCEPT !.pc = "resolve"]
                                  ELSE IdleThread]
       /\ last' = [NoEvent EXCEPT !.kind = "authorize", !.thread = t, !.data = cb[t].data,
                                 !.from = cb[t].from, !.op = cb[t].op,
                                 !.opid = OperationIDOf(cb[t].data),
                                 !.branch = IF denied = "" THEN "" ELSE "denied",
                                 !.answer = denied]
  /\ clock' = IF clock < MaxClock THEN clock + 1 ELSE clock
  /\ UNCHANGED <<pendingOperations, db, executions, resolved>>
  /\ UNCHANGED jsvars

\* :450-521  delete the record and carry the action out
CbResolve(t, dbErr) ==
  /\ cb[t].pc = "resolve"
  /\ \E opid \in {OperationIDOf(cb[t].data)} :
     \E o \in {Resolve(pendingOperations, db, cb[t].op, opid, ActionOf(cb[t].data), dbErr)} :
       /\ pendingOperations' = o.reg
       /\ db' = o.db
       /\ executions' = Counted(o.exec, opid)
       /\ resolved' = resolved \cup {opid}
       /\ last' = [NoEvent EXCEPT !.kind = "resolve", !.thread = t, !.data = cb[t].data,
                                 !.from = cb[t].from, !.op = cb[t].op, !.opid = opid,
                                 !.branch = o.branch, !.answer = o.answer,
                                 !.exec = o.exec, !.saved = o.saved]
  /\ cb' = [cb EXCEPT ![t] = IdleThread]
  /\ UNCHANGED clock
  /\ UNCHANGED jsvars

\* the scripts and the confirmations of the concurrent runs
RaceCalls == {c \in TurnCalls : c.fn \in {"updateProject", "deleteTask"}}
RaceData == {<<a>> \o id : a \in {"confirm", "cancel"}, id \in AllIDs}

NextConcurrent ==
  \/ \E c \in RaceCalls : ScriptCall(c.user, c.fn, c.args)
  \/ \E t \in Threads, data \in RaceData, from \in TgIDs : CbLookup(t, data, from)
  \/ \E t \in Threads, userErr \in BOOLEAN : CbAuthorize(t, userErr)
  \/ \E t \in Threads, dbErr \in BOOLEAN : CbResolve(t, dbErr)

SpecConcurrent == Init /\ [][NextConcurrent]_vars

\* The same handler with the delete of the record and the action on it as two
\* steps of a goroutine, so that other goroutines run in between.
\* a handler that goes on to the action and leaves the record where it is
CbDeleteNothing(t) ==
  /\ cb[t].pc = "resolve"
  /\ cb' = [cb EXCEPT ![t] = [@ EXCEPT !.pc = "execute"]]
  /\ last' = [NoEvent EXCEPT !.kind = "delete", !.thread = t, !.data = cb[t].data,
                            !.from = cb[t].from, !.op = cb[t].op,
                            !.opid = OperationIDOf(cb[t].data)]
  /\ UNCHANGED <<clock, pendingOperations, db, executions, resolved>>
  /\ UNCHANGED jsvars
\* :450-453  delete(pendingOperations, operationID)
CbDelete(t) ==
  /\ cb[t].pc = "resolve"
  /\ pendingOperations' = Delete(pendingOperations, OperationIDOf(cb[t].data))
  /\ cb' = [cb EXCEPT ![t] = [@ EXCEPT !.pc = "execute"]]
  /\ last' = [NoEvent EXCEPT !.kind = "delete", !.thread = t, !.data = cb[t].data,
                            !.from = cb[t].from, !.op = cb[t].op,
                            !.opid = OperationIDOf(cb[t].data)]
  /\ UNCHANGED <<clock, db, executions, resolved>>
  /\ UNCHANGED jsvars
\* :455-521  the action on the record the goroutine holds: executeOperation
\* on confirm, the notice on cancel
CbExecute(t, dbErr) ==
  /\ cb[t].pc = "execute"
  /\ \E opid \in {OperationIDOf(cb[t].data)} :
     \E o \in {Resolve(pendingOperations, db, cb[t].op, opid, ActionOf(cb[t].data), dbErr)} :
       /\ db' = o.db
       /\ executions' = Counted(o.exec, opid)
       /\ resolved' = resolved \cup {opid}
       /\ last' = [NoEvent EXCEPT !.kind = "resolve", !.thread = t, !.data = cb[t].data,
                                 !.from = cb[t].from, !.op = cb[t].op, !.opid = opid,
                                 !.branch = o.branch, !.answer = o.answer,
                                 !.exec = o.exec, !.saved = o.saved]
  /\ cb' = [cb EXCEPT ![t] = IdleThread]
  /\ UNCHANGED <<clock, pendingOperations>>
  /\ UNCHANGED jsvars

NextConfirm ==
  \/ \E c \in RaceCalls : ScriptCall(c.user, c.fn, c.args)
  \/ \E t \in Threads, data \in RaceData, from \in TgIDs : CbLookup(t, data, from)
  \/ \E t \in Threads, userErr \in BOOLEAN : CbAuthorize(t, userErr)
  \/ \E t \in Threads : CbDelete(t)
  \/ \E t \in Threads, dbErr \in BOOLEAN : CbExecute(t, dbErr)

SpecConfirm == Init /\ [][NextConfirm]_vars

\* ------------------------------------------------ executeJavaScriptDirect
\* invocations in one run of the model
MaxInvocations == 2

\* the scripts submitted
Scripts ==
  {Script("notstring", <<>>, JsUndefined),
   Script("rejected", <<>>, JsUndefined),
   Script("unparsable", <<>>, JsUndefined),
   Script("ok", <<>>, JsUndefined),
   Script("ok", <<>>, JsInt(42)),
   Script("ok", <<SMessage(<<JsStr("a")>>), SMessage(<<JsStr("b"), JsInt(1)>>)>>, JsUndefined),
   Script("ok", <<SOutput(<<JsStr("x")>>), SMessage(<<JsStr("a")>>)>>, JsInt(42)),
   Script("ok", <<SOutput(<<>>)>>, JsStr("s")),
   Script("ok", <<SDebug(<<JsInt(1)>>)>>, JsInt(42)),
   Script("ok", <<SMessage(<<JsStr("a")>>), SThrow>>, JsUndefined),
   Script("ok", <<SMessage(<<JsStr("a")>>), SLoop>>, JsUndefined),
   Script("ok", <<STimer("late"), SMessage(<<JsStr("a")>>)>>, JsUndefined),
   Script("ok", <<STimer("late"), SLoop>>, JsUndefined),
   Script("ok", <<STimer("late"), SOutput(<<JsStr("x")>>)>>, JsUndefined),
   Script("ok", <<SCall("deleteProject", <<JsInt(1)>>)>>, JsUndefined),
   Script("ok", <<SCall("createProject", <<JsStr("Site"), JsStr("desc")>>)>>, JsUndefined),
   Script("ok", <<SCall("deleteProject", <<JsInt(1)>>), SThrow>>, JsUndefined),
   Script("ok", <<SSetGlobal, SOutputGlobal>>, JsUndefined),
   Script("ok", <<SOutputGlobal>>, JsUndefined),
   Script("ok", <<SList("listProjects", <<>>)>>, JsUndefined),
   Script("ok", <<SList("listProjects", <<JsStr("archived")>>)>>, JsUndefined),
   Script("ok", <<SList("listTasks", <<>>)>>, JsUndefined),
   Script("ok", <<SList("listTasks", <<JsObj(Fields1("status", JsStr("done")))>>)>>,
          JsUndefined),
   Script("ok", <<SList("listProjects", <<>>), SList("listProjects", <<>>)>>, JsUndefined),
   Script("ok", <<SList("listTasks", <<JsObj(Fields1("status", JsStr("todo")))>>),
                  SList("listTasks", <<JsObj(Fields1("status", JsStr("todo")))>>)>>,
          JsUndefined),
   Script("ok", <<SList("getCurrentProject", <<>>), SList("getCurrentProject", <<>>)>>,
          JsUndefined)}
    \cup {TextScript(TextOf(call)) : call \in MapCalls}
\* the values of the parameter timeout_seconds
TimeoutRequests ==
  {Absent, GoStr("5"), GoF64(-1), GoF64(0), GoF64(1), GoF64(30), GoF64(60), GoF64(61),
   GoFrac(0), GoFrac(1), GoFrac(60), GoNaN, GoHuge}
\* the invocations told apart in a run: every script with the default
\* timeout, one script with every request
Invocations ==
  {[script |-> sc, request |-> Absent] : sc \in Scripts}
    \cup {[script |-> Script("ok", <<SMessage(<<JsStr("a")>>), SLoop>>, JsUndefined),
           request |-> rq] : rq \in TimeoutRequests}
    \cup {[script |-> Script("ok", <<SFetch>>, JsUndefined), request |-> rq] :
             rq \in {Absent, GoF64(1), GoF64(30), GoF64(60)}}

\* goroutines of an invocation that have not ended
Live(i) == i.worker = "running" \/ i.timers # <<>>
\* what is left of an invocation once its caller is gone: its goroutines
Leftover(i) ==
  [NoInvocation EXCEPT !.n = i.n, !.user = i.user, !.script = i.script,
                       !.worker = i.worker, !.pc = i.pc, !.timers = i.timers]
Without(seq, k) == [j \in 1..(Len(seq) - 1) |-> IF j < k THEN seq[j] ELSE seq[j + 1]]

\* a caller that starts the worker whatever the checks of the code found
StartUnchecked(previous, userID, script, request, timeout) ==
  [NoInvocation EXCEPT !.n = previous.n + 1, !.user = userID, !.script = script,
                       !.request = request, !.timeout = timeout,
                       !.caller = "select", !.worker = "running", !.pc = 1]
\* :1265-1347, 1892-1910  the caller up to the start of the worker
Start(previous, userID, script, request, timeout) ==
  IF script.code = "notstring"
  THEN [NoInvocation EXCEPT !.n = previous.n + 1, !.user = userID, !.script = script,
                            !.request = request,
                            !.caller = "returned",
                            !.ret = Failure("invalid", InvalidCodeError)]
  ELSE IF script.code = "rejected"
  THEN [NoInvocation EXCEPT !.n = previous.n + 1, !.user = userID, !.script = script,
                            !.request = request, !.timeout = timeout,
                            !.caller = "returned",
                            !.ret = Failure("syntax", SyntaxError)]
  ELSE [NoInvocation EXCEPT !.n = previous.n + 1, !.user = userID, !.script = script,
                            !.request = request, !.timeout = timeout,
                            !.caller = "select", !.worker = "running", !.pc = 1,
                            !.userMessages = FreshVM(previous).userMessages,
                            !.outputData = FreshVM(previous).outputData,
                            !.globals = FreshVM(previous).globals]

\* one statement run by the interpreter: the invocation and the registry after
Ran(i, reg) == [inv |-> i, reg |-> reg]
Thrown(i, reg, err) == Ran([i EXCEPT !.worker = "done", !.errChan = Append(@, err)], reg)
\* :1448-1451  client.Do failed: panic(vm.NewTypeError("Fetch failed: ..."))
FetchFailed == <<"TypeError:", "Fetch failed">>
\* a read capability that stores a record as the write capabilities do
ReadStatementStores(i, stmt, reg, now, d) ==
  LET r == CallRead(stmt.fn, d, i.user, stmt.args) IN
    Ran([i EXCEPT !.pc = @ + 1, !.listed = Append(@, r.ret)],
        Store(reg, PendingOperation(generateOperationID(now), i.user, 0, stmt.fn,
                                    NoParams, <<>>, now)))
\* :1529-1619  a read capability call: the value goes to the script
ReadStatement(i, stmt, reg, now, d) ==
  LET r == CallRead(stmt.fn, d, i.user, stmt.args) IN
    IF r.fault # "" THEN Thrown(i, reg, <<"TypeError:", r.fault>>)
    ELSE Ran([i EXCEPT !.pc = @ + 1, !.listed = Append(@, r.ret)], reg)
ExecStatement(i, stmt, reg, now, d) ==
  LET next == [i EXCEPT !.pc = @ + 1] IN
  CASE stmt.op = "message" ->
         Ran([next EXCEPT !.userMessages = Append(@, MessageText(stmt.args)),
                          !.emitted = Append(@, MessageText(stmt.args))], reg)
    [] stmt.op = "output" ->
         Ran(IF stmt.args = <<>> THEN next
             ELSE [next EXCEPT !.outputData = Append(@, OutputText(stmt.args[1])),
                               !.emittedOut = Append(@, OutputText(stmt.args[1]))], reg)
    [] stmt.op = "debug" ->
         Ran(IF stmt.args = <<>> THEN next
             ELSE [next EXCEPT !.outputData = Append(@, DebugText(stmt.args[1])),
                               !.emittedOut = Append(@, DebugText(stmt.args[1]))], reg)
    [] stmt.op = "throw" -> Thrown(i, reg, ThrownError)
    [] stmt.op = "setTimeout" -> Ran([next EXCEPT !.timers = Append(@, stmt.args)], reg)
    [] stmt.op = "setGlobal" -> Ran([next EXCEPT !.globals = @ \cup {"x"}], reg)
    [] stmt.op = "outputGlobal" ->
         LET type == IF "x" \in i.globals THEN <<"number">> ELSE <<"undefined">> IN
         Ran([next EXCEPT !.outputData = Append(@, type),
                          !.emittedOut = Append(@, type)], reg)
    [] stmt.op = "list" -> ReadStatement(i, stmt, reg, now, d)
    [] stmt.op = "fetch" -> Thrown(i, reg, FetchFailed)
    [] stmt.op = "call" ->
         LET r == CallCapability(stmt.fn, reg, i.user, stmt.args, now) IN
         IF r.fault # "" THEN Thrown(i, reg, <<"TypeError:", r.fault>>)
         ELSE Ran([next EXCEPT !.registered = @ \cup {r.ret.operationID}], r.reg)
\* :1896-1910  the worker: vm.RunString(code), one statement at a time
WorkerRuns(i) ==
  /\ i.worker = "running"
  /\ i.pc <= Len(i.script.body) => i.script.body[i.pc].op # "loop"
\* a worker whose deferred function reports on errChan also after the result
\* was sent
WorkerOutcomeSendsTwice(i, reg, now, d) ==
  IF i.script.code = "unparsable" THEN Thrown(i, reg, ParseError)
  ELSE IF i.pc > Len(i.script.body)
  THEN Ran([i EXCEPT !.worker = "done", !.resultChan = Append(@, i.script.final),
                     !.errChan = Append(@, PanicError)], reg)
  ELSE ExecStatement(i, i.script.body[i.pc], reg, now, d)
WorkerOutcome(i, reg, now, d) ==
  IF i.script.code = "unparsable" THEN Thrown(i, reg, ParseError)
  ELSE IF i.pc > Len(i.script.body)
  THEN Ran([i EXCEPT !.worker = "done", !.resultChan = Append(@, i.script.final)], reg)
  ELSE ExecStatement(i, i.script.body[i.pc], reg, now, d)

\* :1501-1509  the goroutine of a setTimeout callback calls into the
\* interpreter.  While the worker is inside vm.RunString two goroutines use
\* one goja.Runtime at once: the callback may run, or the interpreter state
\* breaks and one of the two goroutines panics.  Only the worker recovers.
RaceOutcomes(i) ==
  IF i.worker = "running" THEN {"runs", "timerPanics", "workerPanics"} ELSE {"runs"}
\* a callback goroutine that recovers its panics, too
TimerRecovers(i, k, outcome) ==
  LET rest == [i EXCEPT !.timers = Without(@, k)] IN
  IF outcome = "workerPanics"
  THEN [inv |-> [rest EXCEPT !.worker = "done", !.errChan = Append(@, PanicError)],
        host |-> "up"]
  ELSE IF outcome = "timerPanics" THEN [inv |-> rest, host |-> "up"]
  ELSE [inv |-> [rest EXCEPT !.userMessages = Append(@, MessageText(i.timers[k])),
                             !.emitted = Append(@, MessageText(i.timers[k]))],
        host |-> "up"]
TimerOutcome(i, k, outcome) ==
  LET rest == [i EXCEPT !.timers = Without(@, k)] IN
  IF outcome = "workerPanics"
  THEN [inv |-> [rest EXCEPT !.worker = "done", !.errChan = Append(@, PanicError)],
        host |-> "up"]
  ELSE IF outcome = "timerPanics" THEN [inv |-> rest, host |-> "crashed"]
  ELSE [inv |-> [rest EXCEPT !.userMessages = Append(@, MessageText(i.timers[k])),
                             !.emitted = Append(@, MessageText(i.timers[k]))],
        host |-> "up"]

\* a select that takes the result only when no callback is left to run
ReadyAfterTimers(i) ==
  (IF i.ctxDone THEN {"timeout"} ELSE {})
    \cup (IF i.errChan # <<>> THEN {"error"} ELSE {})
    \cup (IF i.resultChan # <<>> /\ i.timers = <<>> THEN {"result"} ELSE {})
\* :1912-1952  the cases of the select that are ready
Ready(i) ==
  (IF i.ctxDone THEN {"timeout"} ELSE {})
    \cup (IF i.errChan # <<>> THEN {"error"} ELSE {})
    \cup (IF i.resultChan # <<>> THEN {"result"} ELSE {})
Return(i, case) ==
  IF case = "timeout" THEN Failure("timeout", TimeoutError(i.timeout))
  ELSE IF case = "error" THEN Failure("runtime", RuntimeError(Head(i.errChan)))
  ELSE Bundle(i.userMessages, i.outputData, Head(i.resultChan))

\* a step of the sandbox leaves no event behind
SandboxEvent == [NoEvent EXCEPT !.kind = "sandbox"]
\* the first invocation of a run is user 1's
Callers == IF inv.n = 0 THEN {1} ELSE UserIDs

\* a caller enters executeJavaScriptDirect
Invoke(userID, script, request) ==
  /\ host = "up"
  /\ inv.caller \in {"idle", "returned"}
  /\ inv.n < MaxInvocations
  /\ \E timeout \in EffectiveTimeouts(WithParam(NoParams, "timeout_seconds", request)) :
       inv' = Start(inv, userID, script, request, timeout)
  /\ leaked' = IF Live(inv) THEN Append(leaked, Leftover(inv)) ELSE leaked
  /\ last' = SandboxEvent
  /\ UNCHANGED <<clock, pendingOperations, db, cb, executions, resolved, host, sent, turn, main, messagesTable>>

\* the worker is about to call fetch
AtFetch(i) ==
  /\ i.worker = "running" /\ i.script.code = "ok"
  /\ i.pc <= Len(i.script.body) /\ i.script.body[i.pc].op = "fetch"
\* the seconds into the invocation at which a fetch may start, and the
\* seconds a server may take to answer
Elapsed(timeout) == {0, 1, timeout - 1, timeout} \cap 0..timeout
Delays == {0, 1, 5, 60}
\* :1389-1488  the worker calls fetch elapsed seconds into the invocation
\* and the server answers after delay seconds.  An answer within the limit
\* goes to the script; otherwise the request is ended at the limit and
\* fetch throws.  A request ended by the context has seen the deadline pass.
Fetch(elapsed, delay) ==
  /\ host = "up"
  /\ AtFetch(inv)
  /\ ~inv.ctxDone
  /\ elapsed \in Elapsed(inv.timeout)
  /\ LET limit == FetchLimit(inv.timeout, elapsed)
         took == IF delay < limit THEN delay ELSE limit
         call == [elapsed |-> elapsed, limit |-> limit, took |-> took,
                  ok |-> delay < limit]
         had == [inv EXCEPT !.fetched = Append(@, call),
                            !.ctxDone = ~call.ok /\ elapsed + took >= inv.timeout]
     IN inv' = IF call.ok THEN [had EXCEPT !.pc = @ + 1]
               ELSE Thrown(had, pendingOperations, FetchFailed).inv
  /\ last' = SandboxEvent
  /\ UNCHANGED <<clock, pendingOperations, db, cb, executions, resolved, leaked, host, sent, turn, main, messagesTable>>

\* the worker goroutine runs the next statement, or ends; a fetch of a
\* worker whose context is done fails at once
WorkerStep ==
  /\ host = "up"
  /\ WorkerRuns(inv)
  /\ AtFetch(inv) => inv.ctxDone
  /\ \E r \in {WorkerOutcome(inv, pendingOperations, clock, db)} :
       /\ inv' = r.inv
       /\ pendingOperations' = r.reg
  /\ last' = SandboxEvent
  /\ UNCHANGED <<clock, db, cb, executions, resolved, leaked, host, sent, turn, main, messagesTable>>

\* the goroutine of a setTimeout callback wakes up
TimerFire(k, outcome) ==
  /\ host = "up"
  /\ k \in 1..Len(inv.timers)
  /\ outcome \in RaceOutcomes(inv)
  /\ \E r \in {TimerOutcome(inv, k, outcome)} :
       /\ inv' = r.inv
       /\ host' = r.host
  /\ last' = SandboxEvent
  /\ UNCHANGED <<clock, pendingOperations, db, cb, executions, resolved, leaked, sent, turn, main, messagesTable>>

\* :1339  the deadline of the context passes
Deadline ==
  /\ host = "up"
  /\ inv.caller = "select"
  /\ ~inv.ctxDone
  /\ inv' = [inv EXCEPT !.ctxDone = TRUE]
  /\ last' = SandboxEvent
  /\ UNCHANGED <<clock, pendingOperations, db, cb, executions, resolved, leaked, host, sent, turn, main, messagesTable>>

\* the caller takes one ready case of the select and returns
CallerReturns(case) ==
  /\ host = "up"
  /\ inv.caller = "select"
  /\ case \in Ready(inv)
  /\ inv' = [inv EXCEPT !.caller = "returned", !.ret = Return(inv, case)]
  /\ last' = SandboxEvent
  /\ UNCHANGED <<clock, pendingOperations, db, cb, executions, resolved, leaked, host, sent, turn, main, messagesTable>>

\* the goroutines an earlier invocation left behind go on: its worker ...
Settled(seq, j, i) ==
  IF Live(i) THEN [seq EXCEPT ![j] = Leftover(i)] ELSE Without(seq, j)
LeakedWorkerStep(j) ==
  /\ host = "up"
  /\ j \in 1..Len(leaked)
  /\ WorkerRuns(leaked[j])
  /\ \E r \in {WorkerOutcome(leaked[j], pendingOperations, clock, db)} :
       /\ leaked' = Settled(leaked, j, r.inv)
       /\ pendingOperations' = r.reg
  /\ last' = SandboxEvent
  /\ UNCHANGED <<clock, db, cb, executions, resolved, inv, host, sent, turn, main, messagesTable>>
\* ... and its setTimeout callbacks
LeakedTimerFire(j, k, outcome) ==
  /\ host = "up"
  /\ j \in 1..Len(leaked)
  /\ k \in 1..Len(leaked[j].timers)
  /\ outcome \in RaceOutcomes(leaked[j])
  /\ \E r \in {TimerOutcome(leaked[j], k, outcome)} :
       /\ leaked' = Settled(leaked, j, r.inv)
       /\ host' = r.host
  /\ last' = SandboxEvent
  /\ UNCHANGED <<clock, pendingOperations, db, cb, executions, resolved, inv, sent, turn, main, messagesTable>>

\* ------------------------------------------------------ processTextMessage
\* An error text and an AI response are kept as their parts; the suffix
\* "_direct" is a part of its own.
Contains(parts, x) == \E k \in 1..Len(parts) : parts[k] = x
TrimSuffix(parts, x) ==
  IF parts # <<>> /\ parts[Len(parts)] = x THEN SubSeq(parts, 1, Len(parts) - 1) ELSE parts
\* functions.go:1151-1154
handleExecuteJavaScript(userID, chatID, parameters) ==
  [op |-> NoOp, err |-> <<"execute_javascript", "_direct">>]
\* functions.go:935-954  arguments: whether the JSON text parses
ProcessGPTFunctionCall(userID, chatID, name, arguments) ==
  IF name # "execute_javascript" THEN [op |-> NoOp, err |-> <<"unknown function:", name>>]
  ELSE IF arguments # "json"
  THEN [op |-> NoOp, err |-> <<"failed to parse function arguments">>]
  ELSE handleExecuteJavaScript(userID, chatID, NoParams)
\* the functions processTextMessage runs without confirmation
DirectFunctions == {"list_projects", "list_tasks", "get_current_project"}
\* reply.go:240-358  what the handler does with the AI response: the branch
\* taken, and the record it stores and asks the user to confirm (NoOp: none)
Handled(branch, op) == [branch |-> branch, op |-> op]
HandleResponse(userID, chatID, aiResponse) ==
  IF aiResponse[1] # "function_call" THEN Handled("text", NoOp)
  ELSE IF Len(aiResponse) < 3 THEN Handled("invalid format", NoOp)
  ELSE LET r == ProcessGPTFunctionCall(userID, chatID, aiResponse[2], aiResponse[3]) IN
       IF r.err # <<>>
       THEN IF Contains(r.err, "_direct")
            THEN IF TrimSuffix(r.err, "_direct") \in {<<f>> : f \in DirectFunctions}
                 THEN Handled("direct", NoOp)
                 ELSE Handled("unknown direct function", NoOp)
            ELSE Handled("processing error", NoOp)
       ELSE Handled("confirmation", [r.op EXCEPT !.ChatID = chatID])
\* the responses of the AI service
AIResponses ==
  {<<"hello">>, <<"function_call", "execute_javascript">>,
   <<"function_call", "execute_javascript", "json">>,
   <<"function_call", "execute_javascript", "not json">>,
   <<"function_call", "list_projects", "json">>}

\* reply.go:190-366  a text message of a user is answered
ProcessTextMessage(userID, chatID, aiResponse) ==
  /\ host = "up"
  /\ \E h \in {HandleResponse(userID, chatID, aiResponse)} :
       /\ pendingOperations' = IF h.branch = "confirmation" THEN Store(pendingOperations, h.op)
                               ELSE pendingOperations
       /\ sent' = IF h.branch = "confirmation" THEN sent \cup {[chat |-> chatID, opid |-> h.op.ID]}
                  ELSE sent
       /\ last' = [NoEvent EXCEPT !.kind = "message", !.branch = h.branch]
  /\ UNCHANGED <<clock, db, cb, executions, resolved, inv, leaked, host, turn, main, messagesTable>>

NextInvoke ==
  \/ \E u \in Callers, i \in Invocations : Invoke(u, i.script, i.request)
  \/ WorkerStep
  \/ \E elapsed \in 0..MaxTimeout, delay \in Delays : Fetch(elapsed, delay)
  \/ \E k \in 1..2, outcome \in {"runs", "timerPanics", "workerPanics"} : TimerFire(k, outcome)
  \/ Deadline
  \/ \E case \in {"timeout", "error", "result"} : CallerReturns(case)
  \/ \E j \in 1..MaxInvocations : LeakedWorkerStep(j)
  \/ \E j \in 1..MaxInvocations, k \in 1..2, outcome \in {"runs", "timerPanics", "workerPanics"} :
       LeakedTimerFire(j, k, outcome)

SpecInvoke == Init /\ [][NextInvoke]_vars

\* the goroutines are scheduled, the deadline passes, messages are handled
SpecInvokeFair ==
  /\ SpecInvoke
  /\ WF_vars(WorkerStep)
  /\ WF_vars(Deadline)
  /\ WF_vars(\E case \in {"timeout", "error", "result"} : CallerReturns(case))

\* ------------------------------------------------- the continuation loop
\* The loop that calls executeJavaScriptDirect for a user turn is not among
\* the source files; it is written down from section 4.4 of the
\* specification.  The sandbox it drives is the code's.
MaxTurns == 2
\* the continuation hops one turn may take
ContinuationHops == 1
\* the code the model collaborator generates
TurnScripts ==
  {Script("rejected", <<>>, JsUndefined),
   Script("ok", <<SMessage(<<JsStr("a")>>), SMessage(<<JsStr("b"), JsInt(1)>>)>>, JsUndefined),
   Script("ok", <<SOutput(<<JsStr("x")>>), SMessage(<<JsStr("a")>>)>>, JsInt(42)),
   Script("ok", <<SMessage(<<JsStr("a")>>), SThrow>>, JsUndefined),
   Script("ok", <<SMessage(<<JsStr("a")>>), SLoop>>, JsUndefined),
   Script("ok", <<STimer("late"), SOutput(<<JsStr("x")>>)>>, JsUndefined)}
\* step 5: the messages of a result, relayed in emission order
Relay(relayed, round, messages) ==
  relayed \o [k \in 1..Len(messages) |-> <<round, messages[k]>>]
\* step 6, its guard with one hop too many
ContinuesOneTooMany(t, ret) == ret.kind = "success" /\ ret.output # <<>> /\ t.round - 1 <= ContinuationHops
\* step 6: continuation output was produced and a hop is left
Continues(t, ret) == ret.kind = "success" /\ ret.output # <<>> /\ t.round - 1 < ContinuationHops

\* steps 1-3: a user turn begins; code is obtained and the sandbox invoked
Begin(userID, script) ==
  /\ host = "up"
  /\ turn.phase # "running"
  /\ turn.n < MaxTurns
  /\ inv.caller \in {"idle", "returned"}
  /\ inv' = Start(inv, userID, script, Absent, DefaultTimeout)
  /\ leaked' = IF Live(inv) THEN Append(leaked, Leftover(inv)) ELSE leaked
  /\ turn' = [NoTurn EXCEPT !.n = turn.n + 1, !.phase = "running", !.user = userID,
                            !.round = 1]
  /\ last' = SandboxEvent
  /\ UNCHANGED <<clock, pendingOperations, db, cb, executions, resolved, host, sent>>
TurnBegin(userID, script) == Begin(userID, script) /\ UNCHANGED <<main, messagesTable>>

\* steps 4-7: the sandbox has returned; the messages are relayed, and either
\* the next round is generated and started or the turn ends.  The result the
\* sandbox builds never holds a pending-operation proposal (step 4).
TurnResult(script) ==
  /\ host = "up"
  /\ turn.phase = "running"
  /\ inv.caller = "returned"
  /\ \E relayed \in {IF inv.ret.kind = "success"
                     THEN Relay(turn.relayed, turn.round, inv.ret.messages)
                     ELSE turn.relayed} :
       IF Continues(turn, inv.ret)
       THEN /\ inv' = Start(inv, turn.user, script, Absent, DefaultTimeout)
            /\ leaked' = IF Live(inv) THEN Append(leaked, Leftover(inv)) ELSE leaked
            /\ turn' = [turn EXCEPT !.round = @ + 1, !.relayed = relayed,
                                    !.prevOutput = inv.ret.output]
       ELSE /\ turn' = [turn EXCEPT !.phase = "done", !.relayed = relayed]
            /\ UNCHANGED <<inv, leaked>>
  /\ last' = SandboxEvent
  /\ UNCHANGED <<clock, pendingOperations, db, cb, executions, resolved, host, sent, main, messagesTable>>

NextTurn ==
  \/ \E u \in (IF turn.n = 0 THEN {1} ELSE UserIDs), sc \in TurnScripts : TurnBegin(u, sc)
  \/ \E sc \in TurnScripts : TurnResult(sc)
  \/ WorkerStep
  \/ \E k \in 1..2, outcome \in {"runs", "timerPanics", "workerPanics"} : TimerFire(k, outcome)
  \/ Deadline
  \/ \E case \in {"timeout", "error", "result"} : CallerReturns(case)
  \/ \E j \in 1..(MaxTurns * (1 + ContinuationHops)) : LeakedWorkerStep(j)
  \/ \E j \in 1..(MaxTurns * (1 + ContinuationHops)), k \in 1..2,
        outcome \in {"runs", "timerPanics", "workerPanics"} : LeakedTimerFire(j, k, outcome)
SpecTurn == Init /\ [][NextTurn]_vars

\* ------------------------------------------------------------ main's loop
\* cmd/bot/main.go:42-53.  bot.GetUpdatesChan starts the goroutine that polls
\* Telegram and sends the updates on a channel; main ranges over the channel
\* and calls the handler of each update, HandleUserMessage for a message (the
\* turn of the continuation loop) and HandleCallbackQuery for a callback
\* query, as a plain function call on its own goroutine, goroutine 1.
MaxUpdates == 3
\* the code of the turns: a write capability call, and a message followed by
\* a loop that never ends
MainScripts ==
  {Script("ok", <<SCall("deleteProject", <<JsInt(1)>>)>>, JsUndefined),
   Script("ok", <<SMessage(<<JsStr("a")>>), SLoop>>, JsUndefined)}
MainUpdates ==
  {[kind |-> "message", user |-> u, script |-> sc, data |-> <<>>, from |-> 0] :
     u \in UserIDs, sc \in MainScripts}
  \cup {[kind |-> "callback", user |-> 0, script |-> Script("ok", <<>>, JsUndefined),
         data |-> <<"confirm">> \o id, from |-> f] : id \in AllIDs, f \in UserIDs}
\* no handler is running on main's goroutine
MainIdle == (\A t \in Threads : cb[t].pc = "idle") /\ turn.phase # "running"

\* :45  the polling goroutine sends an update on the channel
Arrive(update) ==
  /\ main.arrived < MaxUpdates
  /\ main' = [main EXCEPT !.arrived = @ + 1,
                          !.queue = Append(@, [no |-> main.arrived + 1, update |-> update])]
  /\ UNCHANGED <<clock, pendingOperations, db, cb, last, executions, resolved>>
  /\ UNCHANGED <<inv, leaked, host, sent, turn, messagesTable>>
\* a loop that starts every handler on a goroutine of its own
DispatchConcurrently ==
  /\ main.queue # <<>>
  /\ LET u == Head(main.queue).update IN
       IF u.kind = "callback"
       THEN \E t \in Threads : Lookup(t, u.data, u.from)
       ELSE /\ \A t \in Threads : cb[t].pc = "idle"
            /\ Begin(u.user, u.script)
  /\ main' = [main EXCEPT !.queue = Tail(@), !.started = @ + 1,
                          !.current = Head(main.queue).no]
  /\ UNCHANGED messagesTable
\* :47-53  main takes the next update from the channel once the handler of
\* the one before has returned, and calls its handler
Dispatch ==
  /\ MainIdle
  /\ main.queue # <<>>
  /\ LET u == Head(main.queue).update IN
       IF u.kind = "callback"
       THEN Lookup(1, u.data, u.from)
       ELSE Begin(u.user, u.script)
  /\ main' = [main EXCEPT !.queue = Tail(@), !.started = @ + 1,
                          !.current = Head(main.queue).no]
  /\ UNCHANGED messagesTable

NextMain ==
  \/ \E u \in MainUpdates : Arrive(u)
  \/ Dispatch
  \/ \E t \in Threads, userErr \in BOOLEAN : CbAuthorize(t, userErr)
  \/ \E t \in Threads : CbDelete(t)
  \/ \E t \in Threads, dbErr \in BOOLEAN : CbExecute(t, dbErr)
  \/ \E sc \in MainScripts : TurnResult(sc)
  \/ WorkerStep
  \/ Deadline
  \/ \E case \in {"timeout", "error", "result"} : CallerReturns(case)
  \/ \E j \in 1..(MaxTurns * (1 + ContinuationHops)) : LeakedWorkerStep(j)

SpecMain == Init /\ [][NextMain]_vars

\* scripts register operations while the users' messages are answered
NextChat ==
  \/ Tick
  \/ \E u \in UserIDs, c \in CallInputs : ScriptCall(u, c.fn, c.args)
  \/ \E u \in UserIDs, chat \in ChatIDs, r \in AIResponses : ProcessTextMessage(u, chat, r)
SpecChat == Init /\ [][NextChat]_vars
\* every message is answered in the end
SpecChatFair ==
  /\ SpecChat
  /\ WF_vars(\E u \in UserIDs, chat \in ChatIDs, r \in AIResponses : ProcessTextMessage(u, chat, r))

\* ============================================================ the claims
\* the step just taken handled a callback whose data names the record id,
\* and the registry held that record before the step
FoundBefore == last'.kind = "callback" /\ last'.opid \in DOMAIN pendingOperations
\* ... and the sender is the record's owner, known to the store
ByOwner ==
  /\ last'.failure # "user"
  /\ UserOfTg(last'.from) # 0
  /\ UserOfTg(last'.from) = pendingOperations[last'.opid].UserID
\* the tables of projects and tasks and the current-project settings
Data(d) == <<d.projects, d.project_users, d.tasks, d.current>>
NotFoundAnswer == "operation not found or already done"

C2_ResolvedStaysGone ==
  [][(last'.kind = "callback" /\ last'.opid \in resolved)
       => /\ last'.branch = "notfound"
          /\ last'.answer = NotFoundAnswer
          /\ last'.exec = <<>>
          /\ last'.saved = <<>>
          /\ executions' = executions
          /\ pendingOperations' = pendingOperations
          /\ db' = db]_vars
\* a second attempt on a resolved id has been handled
C2_Witness ==
  /\ last.kind = "callback"
  /\ last.opid \in resolved
  /\ last.branch = "notfound"
  /\ ActionOf(last.data) = "confirm"

\* the execution routine that belongs to an operation type
RoutineOf(type) ==
  CASE type = "create_project" -> "executeCreateProject"
    [] type = "update_project" -> "executeUpdateProject"
    [] type = "delete_project" -> "executeDeleteProject"
    [] type = "create_task" -> "executeCreateTask"
    [] type = "update_task" -> "executeUpdateTask"
    [] type = "delete_task" -> "executeDeleteTask"
    [] type = "set_current_project" -> "executeSetCurrentProject"
    [] type = "send_message_with_buttons" -> "executeSendMessageWithButtons"
    [] OTHER -> "none"

\* C3: a confirm by the owner for an id the registry holds runs the execution
\* routine of the record's type exactly once, on the stored record, and
\* afterwards the registry lacks the id, whether the execution succeeded or
\* failed.
C3_ConfirmRunsOnce ==
  [][(FoundBefore /\ ByOwner /\ ActionOf(last'.data) = "confirm")
       => /\ Len(last'.exec) = 1
          /\ last'.exec[1].routine = RoutineOf(pendingOperations[last'.opid].Type)
          /\ last'.exec[1].op = pendingOperations[last'.opid]
          /\ executions'[last'.opid] = executions[last'.opid] + 1
          /\ last'.branch \in {"confirm_ok", "confirm_failed"}
          /\ last'.opid \notin DOMAIN pendingOperations']_vars
\* the owner confirmed and the execution failed
C3_Witness ==
  /\ last.kind = "callback"
  /\ last.branch = "confirm_failed"
  /\ UserOfTg(last.from) = last.op.UserID
  /\ Len(last.exec) = 1
  /\ last.opid \notin DOMAIN pendingOperations

\* C4: a resolve attempt by a user other than the owner, by an unknown user,
\* or one whose user lookup fails leaves the record in the registry, runs no
\* execution and changes no persisted data.
C4_DeniedChangesNothing ==
  [][(FoundBefore /\ ~ByOwner)
       => /\ pendingOperations' = pendingOperations
          /\ last'.exec = <<>>
          /\ executions' = executions
          /\ last'.saved = <<>>
          /\ db' = db]_vars
\* a known user who is not the owner tried to confirm
C4_Witness ==
  /\ last.kind = "callback"
  /\ last.branch = "denied"
  /\ last.answer = "permission denied"
  /\ ActionOf(last.data) = "confirm"
  /\ last.opid \in DOMAIN pendingOperations

\* C5: a cancel by the owner removes the record and leaves every project,
\* every task and every current-project setting as it was.
C5_CancelOnlyRemoves ==
  [][(FoundBefore /\ ByOwner /\ ActionOf(last'.data) = "cancel")
       => /\ last'.opid \notin DOMAIN pendingOperations'
          /\ last'.exec = <<>>
          /\ Data(db') = Data(db)]_vars
\* the owner cancelled an operation that would have changed a project
C5_Witness ==
  /\ last.kind = "callback"
  /\ last.branch = "cancel"
  /\ last.op.Type = "delete_project"
  /\ last.opid \notin DOMAIN pendingOperations
  /\ 1 \in DOMAIN db.projects

\* C6: a record leaves the registry only through a confirm or a cancel by
\* its owner; under a callback whose action token is neither, a record that
\* was found stays.
C6_LeavesOnlyByConfirmOrCancel ==
  [][\A id \in AllIDs :
       (id \in DOMAIN pendingOperations /\ id \notin DOMAIN pendingOperations')
         => /\ FoundBefore /\ ByOwner
            /\ last'.opid = id
            /\ ActionOf(last'.data) \in {"confirm", "cancel"}]_vars

\* C7: a registration never replaces a record that is still unresolved: the
\* id it is stored under is not yet in the registry and the registry grows by
\* exactly one, also when two registrations read the same clock value.
C7_RegistrationAddsOne ==
  [][(last'.kind = "call" /\ last'.fault = "")
       => /\ last'.ret.operationID \notin DOMAIN pendingOperations
          /\ Cardinality(DOMAIN pendingOperations')
               = Cardinality(DOMAIN pendingOperations) + 1]_vars

\* a step changed a project, a membership or a task
DataChanged ==
  \/ db'.projects # db.projects
  \/ db'.project_users # db.project_users
  \/ db'.tasks # db.tasks
\* the step executed a registered operation that its owner confirmed
OwnerConfirmed ==
  /\ FoundBefore /\ ByOwner
  /\ ActionOf(last'.data) = "confirm"
  /\ last'.branch = "confirm_ok"
  /\ Len(last'.exec) = 1

\* C8 as stated: projects and tasks change only when a registered operation
\* is executed after its owner's confirm; no capability call, cancel, failed
\* resolve or other callback creates, updates or deletes a project or task.
C8_OnlyConfirmChangesData == [][DataChanged => OwnerConfirmed]_vars

\* the step handled a suggest_project_ button of a known user and did
\* nothing but insert the suggested project with its sender as owner
SuggestedProjectCreated ==
  /\ last'.kind = "callback"
  /\ last'.branch = "suggest_ok"
  /\ HasPrefix2(last'.data, "suggest", "project")
  /\ UserOfTg(last'.from) # 0
  /\ db'.tasks = db.tasks
  /\ DOMAIN db'.projects = DOMAIN db.projects \cup {db.nextProject}
  /\ \A pr \in DOMAIN db.projects : db'.projects[pr] = db.projects[pr]
  /\ db'.project_users = db.project_users \cup
       {[project_id |-> db.nextProject, user_id |-> UserOfTg(last'.from), role |-> "owner"]}

\* C8: projects and tasks change only when a registered operation is executed
\* after its owner's confirm, or when a known user presses a suggest_project_
\* button, which inserts the suggested project; no capability call, cancel,
\* failed resolve or other callback creates, updates or deletes a project or
\* task.
C8_OnlyConfirmOrSuggestChangesData ==
  [][DataChanged => (OwnerConfirmed \/ SuggestedProjectCreated)]_vars
\* a confirmed operation has deleted a project and its tasks
C8_Witness ==
  /\ last.kind = "callback"
  /\ last.branch = "confirm_ok"
  /\ last.op.Type = "delete_project"
  /\ 1 \notin DOMAIN db.projects
  /\ db.tasks = <<>>

\* the first argument a capability requires, and the second of
\* sendMessageWithButtons, is missing or of another type than documented; a
\* string that reads as a number is let pass as a number
NumberFirst == {"updateProject", "deleteProject", "updateTask", "deleteTask",
                "setCurrentProject"}
StringFirst == {"createProject", "createTask", "sendMessageWithButtons"}
Malformed(fn, args) ==
  \/ Len(args) = 0
  \/ /\ fn \in NumberFirst
     /\ args[1].t \notin {"int", "float"}
     /\ ~(args[1].t = "string" /\ args[1].s \in NumericStrings)
  \/ fn \in StringFirst /\ args[1].t # "string"
  \/ fn = "sendMessageWithButtons" /\ (Len(args) < 2 \/ args[2].t # "array")

\* C9: for every write capability, a call whose required parameter is missing
\* or of the wrong type faults at once and leaves the registry unchanged.
C9_MalformedCallFaults ==
  [][(last'.kind = "call" /\ Malformed(last'.fn, last'.args))
       => /\ last'.fault # ""
          /\ pendingOperations' = pendingOperations]_vars

\* C10: createProject(name, description) with a string name does not fault,
\* registers one create_project operation owned by the acting user and
\* returns a proposal that carries the operation's id and description.
C10_CreateProjectRegisters ==
  (/\ last.kind = "call"
   /\ last.fn = "createProject"
   /\ Len(last.args) >= 1
   /\ last.args[1].t = "string")
  => /\ last.fault = ""
     /\ last.ret.requiresConfirmation
     /\ last.ret.type = "create_project"
     /\ last.ret.operationID \in DOMAIN pendingOperations
     /\ pendingOperations[last.ret.operationID].Type = "create_project"
     /\ pendingOperations[last.ret.operationID].UserID = last.user
     /\ pendingOperations[last.ret.operationID].Description = last.ret.description

\* what a caller of the handler can observe of one run, and its effects
Observed(o) == [answer |-> o.answer, reg |-> o.reg, db |-> o.db, exec |-> o.exec,
                saved |-> o.saved]
\* callback data that names an id generateOperationID never returned
NeverRegistered(action) == <<action, "op", "never">>

\* C11: a resolve attempt on an id that was resolved before is answered, and
\* acts, exactly as the same attempt on an id that was never registered: the
\* "not found" answer, no execution, registry and persisted data as they
\* were, whoever the sender is and whatever fails outside the program.
C11_ResolvedLikeNeverRegistered ==
  \A data \in ResolveData, from \in TgIDs, chat \in ChatIDs, userErr \in BOOLEAN, dbErr \in BOOLEAN :
    OperationIDOf(data) \in resolved
      => /\ Observed(HandleOutcome(pendingOperations, db, data, from, chat, userErr, dbErr))
              = Observed(HandleOutcome(pendingOperations, db, NeverRegistered(ActionOf(data)),
                                       from, chat, userErr, dbErr))
         /\ Observed(HandleOutcome(pendingOperations, db, data, from, chat, userErr, dbErr))
              = [answer |-> NotFoundAnswer, reg |-> pendingOperations, db |-> db,
                 exec |-> <<>>, saved |-> <<>>]
\* a cancel of an id that was resolved before has been handled while another
\* id was never registered
C11_Witness ==
  /\ last.kind = "callback"
  /\ last.opid \in resolved
  /\ last.branch = "notfound"
  /\ ActionOf(last.data) = "cancel"
  /\ \E id \in AllIDs : id \notin resolved /\ id \notin DOMAIN pendingOperations

\* C12: a fault raised while a script runs (an exception thrown by the
\* script, a fault of a capability, a panic inside the interpreter) never
\* ends the host process, and the caller that takes it from the worker
\* returns it as an error result.
C12_FaultsBecomeErrors ==
  /\ host = "up"
  /\ (inv.caller = "returned" /\ inv.ret.kind = "runtime")
       => /\ inv.errChan # <<>>
          /\ inv.ret.err = RuntimeError(Head(inv.errChan))
          /\ inv.ret.messages = <<>> /\ inv.ret.output = <<>>

\* the caller waits in the select while the script is in a loop that never ends
Looping ==
  /\ inv.caller = "select"
  /\ inv.worker = "running"
  /\ inv.pc <= Len(inv.script.body)
  /\ inv.script.body[inv.pc].op = "loop"
TimedOut ==
  /\ inv.caller = "returned"
  /\ inv.ret = Failure("timeout", TimeoutError(inv.timeout))

\* the run of the script has ended after all (a panic took the worker out of
\* the loop)
ScriptEnded == inv.worker = "done"

\* C13: when the script never completes, the caller returns the timeout
\* fault once the deadline has passed, whatever the goroutines of the
\* invocation do.
C13_LoopEndsInTimeout == Looping ~> (TimedOut \/ ScriptEnded)

\* the outcome a returned call carries is of one kind only
Unmixed(ret) ==
  /\ ret.kind \in {"success", "timeout", "runtime", "syntax", "invalid"}
  /\ ret.kind = "success" <=> ret.err = <<>>
  /\ ret.err # <<>> => ret.messages = <<>> /\ ret.output = <<>>
  /\ ret.kind = "timeout" => /\ ret.err[1] # RuntimeError(<<>>)[1]
                             /\ ret.err[1] # SyntaxError[1]
                             /\ ret.err[1] # InvalidCodeError[1]
  /\ ret.kind \in {"runtime", "syntax", "invalid"} => ret.err[1] # TimeoutError(0)[1]

\* C14: a call that has returned carries one terminal outcome and keeps it:
\* a success bundle, or a fault, or a timeout; a fault or timeout carries no
\* message and no output of the script, and the error of a timeout differs
\* from the error of every other fault.
C14_OneUnmixedOutcome ==
  /\ [](inv.caller = "returned" => Unmixed(inv.ret))
  /\ [][(inv.caller = "returned" /\ inv'.n = inv.n)
          => (inv'.caller = "returned" /\ inv'.ret = inv.ret)]_vars
\* a call has returned the timeout fault after its script had emitted a message
C14_Witness ==
  /\ inv.caller = "returned"
  /\ inv.ret.kind = "timeout"
  /\ inv.userMessages # <<>>

\* every entry of one list occurs in the other
Within(part, whole) == \A k \in 1..Len(part) : \E j \in 1..Len(whole) : whole[j] = part[k]
Succeeded == inv.caller = "returned" /\ inv.ret.kind = "success"

Below(rq) == rq.s \in {"", "frac"} /\ rq.n < MinTimeout
Above(rq) ==
  \/ rq.s = "" /\ rq.n > MaxTimeout
  \/ rq.s = "frac" /\ rq.n >= MaxTimeout
  \/ rq.s = "huge"
InRange(rq) == rq.s \in {"", "frac"} /\ ~Below(rq) /\ ~Above(rq)

\* C16: the timeout an invocation runs with lies between 1 and 60: a request
\* below 1 gives 1, a request above 60 gives 60, a request in range is used
\* as given (in whole seconds), no request gives 10; no request is rejected.
C16_TimeoutClamped ==
  (inv.n > 0 /\ inv.script.code = "ok")
    => /\ inv.timeout \in MinTimeout..MaxTimeout
       /\ inv.caller # "idle" /\ inv.ret.kind \notin {"invalid", "syntax"}
       /\ ~IsFloat64(inv.request) => inv.timeout = DefaultTimeout
       /\ (IsFloat64(inv.request) /\ Below(inv.request)) => inv.timeout = MinTimeout
       /\ (IsFloat64(inv.request) /\ Above(inv.request)) => inv.timeout = MaxTimeout
       /\ (IsFloat64(inv.request) /\ InRange(inv.request)) => inv.timeout = inv.request.n

\* The states an invocation can pass through when it runs on its own, from a
\* fresh start: the worker's steps and the callbacks of its timers, in every
\* order, the host staying up.
RECURSIVE Alone(_)
Alone(i) ==
  {i} \cup (IF WorkerRuns(i) THEN Alone(WorkerOutcome(i, [id \in {} |-> NoOp], 0, db).inv) ELSE {})
      \cup UNION {Alone(TimerOutcome(i, k, outcome).inv) :
                    k \in 1..Len(i.timers), outcome \in RaceOutcomes(i) \ {"timerPanics"}}
\* what such an invocation can return, the deadline passing at any time
ReadyReturnsAlone(userID, script, request, timeout) ==
  LET start == Start(NoInvocation, userID, script, request, timeout) IN
  IF start.caller = "returned" THEN {start.ret}
  ELSE UNION {{Return(j, case) : case \in Ready([j EXCEPT !.ctxDone = TRUE])} :
                j \in Alone(start)}

\* the script of the invocation starts no timer of its own
OwnTimerFree == \A k \in 1..Len(inv.script.body) : inv.script.body[k].op # "setTimeout"

\* C17: whatever ran before - invocations that completed, faulted or timed
\* out, goroutines they left behind, operations they registered - an
\* invocation returns, and returns what it can return when it runs on its
\* own from a fresh interpreter with empty message and output lists and no
\* globals.
C17_ReturnsAsIfAlone ==
  /\ [](inv.caller = "returned"
          => inv.ret \in ReadyReturnsAlone(inv.user, inv.script, inv.request, inv.timeout))
  /\ (inv.caller = "select" /\ OwnTimerFree) ~> (inv.caller = "returned")

NoMatchingRows(k) ==
  LET stmt == inv.script.body[k] IN
    /\ stmt.op = "list"
    /\ stmt.fn \in {"listProjects", "listTasks"}
    /\ IF stmt.fn = "listProjects"
       THEN executeListProjects(db, inv.user,
              IF stmt.args = <<>> THEN NoParams
              ELSE "status" :> GoStr(JsString(stmt.args[1]))).count = 0
       ELSE executeListTasks(db, inv.user,
              IF stmt.args = <<>> THEN NoParams
              ELSE [key \in DOMAIN stmt.args[1].f |-> JsExport(stmt.args[1].f[key])]).count = 0
\* statement k has run: the worker went past it, or it raised the fault
Executed(k) == inv.pc > k \/ (inv.pc = k /\ inv.errChan # <<>>)
\* the how-manieth read capability call of the script statement k is
ListIndex(k) == Cardinality({j \in 1..k : inv.script.body[j].op = "list"})

\* C19: listProjects and listTasks called for a user who has no matching row
\* hand the script an array of length 0, not null and not undefined, and
\* raise no fault.
C19_NoRowsGivesEmptyArray ==
  \A k \in 1..Len(inv.script.body) :
    (NoMatchingRows(k) /\ Executed(k))
      => /\ inv.errChan = <<>>
         /\ Len(inv.listed) >= ListIndex(k)
         /\ inv.listed[ListIndex(k)] = JsArr("rows", 0)

\* a confirmation request that carries the identifier has been sent
ConfirmationSent(id) == \E request \in sent : request.opid = id

\* C20: every record a write capability call of a script registers is
\* followed by a confirmation request with the identifier of the record, sent
\* to the chat of the user.
C20_RegisteredIsAskedFor ==
  \A id \in AllIDs : (id \in DOMAIN pendingOperations) ~> ConfirmationSent(id)

RECURSIVE RelayedOf(_, _)
RelayedOf(relayed, round) ==
  IF relayed = <<>> THEN <<>>
  ELSE IF Head(relayed)[1] = round
  THEN <<Head(relayed)[2]>> \o RelayedOf(Tail(relayed), round)
  ELSE RelayedOf(Tail(relayed), round)

Rejected == inv.n > 0 /\ inv.script.code = "rejected"

\* C23: when autoFixJavaScript and validateJavaScriptSyntax leave a defect,
\* executeJavaScriptDirect returns the syntax fault and nothing has run: no
\* worker, no message, no output, no timer, no capability call, and the
\* registry is as it was.
C23_RejectedNeverRuns ==
  /\ [](Rejected
          => /\ inv.caller = "returned"
             /\ inv.ret = Failure("syntax", SyntaxError)
             /\ inv.worker = "none"
             /\ inv.emitted = <<>> /\ inv.emittedOut = <<>>
             /\ inv.userMessages = <<>> /\ inv.outputData = <<>>
             /\ inv.timers = <<>> /\ inv.registered = {} /\ inv.listed = <<>>)
  /\ [][(inv'.n # inv.n /\ inv'.script.code = "rejected")
          => pendingOperations' = pendingOperations]_vars
\* a text that calls a write capability was rejected while the registry held
\* a record
C23_Witness ==
  /\ Rejected /\ inv.n = 2
  /\ inv.script.text # <<>>
  /\ \E k \in 1..Len(inv.script.body) : inv.script.body[k].op = "call"
  /\ DOMAIN pendingOperations # {}

\* the calls as written whose text the invocation was given
WrittenAs == {call \in MapCalls : TextOf(call) = inv.script.text}

\* C24: a map callback whose body is a bare object literal without return is
\* rewritten to return that object literal, the rewritten code passes
\* validateJavaScriptSyntax and is the code that runs; a callback body that
\* holds return already is left as it is.
C24_BareObjectGetsReturn ==
  (inv.n > 0 /\ inv.script.text # <<>>)
    => \A call \in WrittenAs :
         IF call.return
         THEN inv.script.run = inv.script.text
         ELSE /\ Squeeze(inv.script.run) = Squeeze(TextOf([call EXCEPT !.return = TRUE]))
              /\ inv.script.code = "ok"

\* statements j and k of the script are the same read capability call
SameRead(j, k) ==
  /\ j < k /\ inv.script.body[j].op = "list" /\ inv.script.body[j] = inv.script.body[k]
  /\ inv.pc > k

C26_NeverWaitsForCallback ==
  /\ []((inv.caller = "select" /\ inv.resultChan # <<>>) => "result" \in Ready(inv))
  /\ [][(inv.caller = "returned" /\ inv'.n = inv.n) => inv'.ret = inv.ret]_vars
\* the caller returned a success before the callback ran, and the callback's
\* message came after it
C26_Witness ==
  /\ Succeeded /\ inv.script.body # <<>> /\ inv.timers = <<>>
  /\ inv.ret.messages = <<>> /\ inv.emitted # <<>>

\* C27: a fetch made in an invocation whose timeout is between 1 and 60
\* seconds is given a time limit that is at most that timeout, the 1-second
\* case included, and is ended when that limit is reached.
C27_FetchWithinTimeout ==
  inv.timeout \in MinTimeout..MaxTimeout
    => \A k \in 1..Len(inv.fetched) :
         /\ inv.fetched[k].limit <= inv.timeout
         /\ inv.fetched[k].took <= inv.fetched[k].limit
         /\ inv.fetched[k].elapsed + inv.fetched[k].took <= inv.timeout
\* a fetch of an invocation with a 1-second timeout was ended at its limit
C27_Witness ==
  /\ inv.timeout = MinTimeout /\ Len(inv.fetched) = 1
  /\ ~inv.fetched[1].ok /\ inv.fetched[1].limit = MinTimeout /\ inv.fetched[1].took = MinTimeout

\* the caller of the invocation has returned the timeout fault
Abandoned == inv.caller = "returned" /\ inv.ret.kind = "timeout"

\* C28: once the caller has returned the timeout fault, the worker it left
\* behind changes nothing that can be seen: what the caller returned stays as
\* it is, and the registry gets no record from that worker, neither before
\* the next invocation starts nor while a later one runs.
C28_AbandonedWorkerSilent ==
  [][/\ (Abandoned /\ inv'.n = inv.n)
          => (inv'.ret = inv.ret /\ pendingOperations' = pendingOperations)
     /\ (leaked' # leaked /\ inv' = inv) => pendingOperations' = pendingOperations]_vars

\* the invocation has ended in a runtime fault or a timeout
Faulted == inv.caller = "returned" /\ inv.ret.kind \in {"runtime", "timeout"}

\* C29: when an invocation has ended in a runtime fault or a timeout, no
\* record that one of its write capability calls registered is in the
\* registry.
C29_FaultLeavesNoRecord ==
  Faulted => \A id \in inv.registered : id \notin DOMAIN pendingOperations

\* a goroutine has deleted the record of id on a confirm and has not yet
\* finished executeOperation; a confirm of id has been carried out
ConfirmRunning(id) ==
  \E t \in Threads :
    cb[t].pc = "execute" /\ OperationIDOf(cb[t].data) = id /\ ActionOf(cb[t].data) = "confirm"
ConfirmDone(id) == id \in resolved /\ executions[id] > 0

\* C30: a handler that looks an id up while another goroutine is carrying out
\* the confirm of that id, or after a confirm of it was carried out, with
\* success or without, finds no record: it answers "not found" and goes no
\* further.
C30_GoneBeforeExecution ==
  [][(last'.kind = "lookup" /\ (ConfirmRunning(last'.opid) \/ ConfirmDone(last'.opid)))
       => (last'.branch = "notfound" /\ last'.answer = NotFoundAnswer /\ cb' = cb)]_vars
\* a goroutine has looked the id up and found nothing while another one is
\* still carrying out the confirm of that id
C30_Witness ==
  /\ last.kind = "lookup" /\ last.branch = "notfound"
  /\ ConfirmRunning(last.opid)
  /\ last.opid \notin resolved

\* C31: a callback scheduled with setTimeout never calls into the interpreter
\* or appends to the lists of the invocation while the worker is still
\* running the main script.
C31_CallbackNotDuringScript ==
  [][(inv'.n = inv.n /\ Len(inv'.timers) < Len(inv.timers)) => inv.worker # "running"]_vars

\* :1893-1894  make(chan interface{}, 1), make(chan error, 1)
ChanCap == 1
\* the values the worker of invocation i has sent
Sent(i) == Len(i.resultChan) + Len(i.errChan)

\* C32: neither channel ever holds more than its buffer takes, so no send of
\* a worker waits for a reader; the worker sends one value when it ends and
\* none before or after, also when its caller has returned on the timeout.
C32_DeliveryNeverBlocks ==
  /\ [](/\ Len(inv.resultChan) <= ChanCap /\ Len(inv.errChan) <= ChanCap
        /\ Sent(inv) = IF inv.worker = "done" THEN 1 ELSE 0
        /\ \A j \in 1..Len(leaked) : Sent(leaked[j]) = 0)
  /\ [][(inv'.n = inv.n /\ Abandoned /\ inv.worker = "running" /\ inv'.worker = "done")
          => (Sent(inv') = 1 /\ inv'.ret = inv.ret)]_vars
\* the caller has returned the timeout fault and the worker has ended after
\* its script ran to the end: its value lies in the channel, unread
C32_Witness ==
  /\ Abandoned /\ inv.worker = "done"
  /\ inv.resultChan # <<>> /\ inv.errChan = <<>>

\* the handlers that have been called and have not returned
Handlers ==
  Cardinality({t \in Threads : cb[t].pc # "idle"}) + (IF turn.phase = "running" THEN 1 ELSE 0)

ButtonPressed == last'.kind = "callback" /\ \E a \in ButtonActions : last'.data = ButtonData(a)

\* C34: the callback of a custom button, whatever its action text, runs no
\* execution and leaves the registry and the persisted projects, memberships
\* and tasks as they were; all it stores is the action text as a message of
\* the user who pressed.
C34_ButtonNeverResolves ==
  [][ButtonPressed
       => /\ last'.branch \in {"custom", "custom_usererr", "custom_nouser"}
          /\ pendingOperations' = pendingOperations
          /\ Data(db') = Data(db)
          /\ executions' = executions /\ resolved' = resolved
          /\ last'.exec = <<>>
          /\ last'.branch = "custom"
               => \E chat \in ChatIDs :
                    last'.saved = SaveMessage(<<>>, UserOfTg(last'.from), chat, "user",
                                              Rest(last'.data, 2))]_vars
\* the owner of a record has pressed a button whose action text is the
\* confirmation of that record, and the record is still there
C34_Witness ==
  /\ last.kind = "callback" /\ last.branch = "custom"
  /\ \E id \in DOMAIN pendingOperations :
       /\ last.data = ButtonData(<<"confirm">> \o id)
       /\ UserOfTg(last.from) = pendingOperations[id].UserID

\* the step carried out the owner's confirm of an operation of this type, and
\* the execution routine succeeded
Confirmed(type) ==
  /\ last'.kind = "callback" /\ last'.branch = "confirm_ok"
  /\ last'.op.Type = type

\* C35: a confirmed update_project leaves every one of the project's title,
\* description and status as it was when the operation's parameters do not
\* name it.
C35_UpdateProjectKeepsAbsentFields ==
  [][Confirmed("update_project")
       => LET p == IntOfFloat(Get(last'.op.Parameters, "project_id")) IN
          \A f \in {"title", "description", "status"} :
            ~IsString(Get(last'.op.Parameters, f))
              => db'.projects[p][f] = db.projects[p][f]]_vars

\* C36: a confirmed update_task leaves each of the task's title, description,
\* status and priority as it was when the parameters do not name it, and the
\* deadline as it was when the parameters name none, an empty one or one that
\* does not parse.
C36_UpdateTaskKeepsAbsentFields ==
  [][Confirmed("update_task")
       => LET t == IntOfFloat(Get(last'.op.Parameters, "task_id")) IN
          /\ \A f \in {"title", "description", "status", "priority"} :
               ~IsString(Get(last'.op.Parameters, f)) => db'.tasks[t][f] = db.tasks[t][f]
          /\ StrParam(last'.op, "deadline") \notin ValidDeadlines
               => db'.tasks[t].deadline = db.tasks[t].deadline]_vars
\* an update_task whose only parameter is a deadline that does not parse has
\* been confirmed, and the task has the deadline and the title it had
C36_Witness ==
  /\ last.kind = "callback" /\ last.branch = "confirm_ok"
  /\ last.op.Type = "update_task"
  /\ StrParam(last.op, "deadline") = "soon"
  /\ db.tasks[1].deadline = InitDB.tasks[1].deadline /\ db.tasks[1].deadline # ""
  /\ db.tasks[1].title = "T"

\* C37: every record in the registry names the user who ran the invocation
\* that created it and the chat in which that turn took place, and the rows a
\* confirm or a cancel appends to the history belong to such a chat.
C37_RecordsOriginatingChat ==
  /\ \A id \in DOMAIN pendingOperations :
       /\ pendingOperations[id].UserID \in UserIDs
       /\ pendingOperations[id].ChatID \in ChatIDs
  /\ last.kind = "callback" /\ last.branch \in {"confirm_ok", "confirm_failed", "cancel"}
       => \A k \in 1..Len(last.saved) : last.saved[k].chat_id \in ChatIDs

\* ------------------------------------------------------ project members
\* reply.go:490-493
ProjectRoles == {"owner", "admin", "member", "viewer"}
\* the users of the table users, and the projects a call can name
MemberIDs == 1..3
CalledProjects == {1, 2}

GetProjectOwnerCount(d, projectID) ==
  Cardinality({m \in d.project_users : m.project_id = projectID /\ m.role = "owner"})

\* the row is inserted; the key unique_project_user rejects a second row of
\* the same user in the same project
AddUserToProject(d, projectID, userID, inviterUserID, role) ==
  LET inviterRole == GetUserRoleInProject(d, projectID, inviterUserID) IN
  IF inviterRole = "" THEN Err(d, "failed to check inviter permissions")
  ELSE IF inviterRole \notin {"owner", "admin"} THEN Err(d, "insufficient permissions")
  ELSE IF GetUserRoleInProject(d, projectID, userID) # ""
  THEN Err(d, "failed to add user to project")
  ELSE Ok([d EXCEPT !.project_users = @ \cup {[project_id |-> projectID,
                                               user_id |-> userID, role |-> role]}])

RemoveUserFromProject(d, projectID, userID, removerUserID) ==
  LET removerRole == GetUserRoleInProject(d, projectID, removerUserID)
      userRole == GetUserRoleInProject(d, projectID, userID)
      deleted == [d EXCEPT !.project_users =
                    {m \in @ : ~(m.project_id = projectID /\ m.user_id = userID)}]
  IN IF removerRole = "" THEN Err(d, "failed to check remover permissions")
     ELSE IF removerRole \notin {"owner", "admin"} THEN Err(d, "insufficient permissions")
     ELSE IF userID # removerUserID
     THEN IF userRole = "" THEN Err(d, "failed to check user role")
          ELSE IF userRole = "owner" /\ GetProjectOwnerCount(d, projectID) <= 1
          THEN Err(d, "cannot remove the last owner")
          ELSE Ok(deleted)
     ELSE Ok(deleted)

UpdateUserRoleInProject(d, projectID, userID, updaterUserID, newRole) ==
  LET updaterRole == GetUserRoleInProject(d, projectID, updaterUserID) IN
  IF updaterRole = "" THEN Err(d, "failed to check updater permissions")
  ELSE IF updaterRole \notin {"owner", "admin"} THEN Err(d, "insufficient permissions")
  ELSE Ok([d EXCEPT !.project_users =
             {IF m.project_id = projectID /\ m.user_id = userID
              THEN [m EXCEPT !.role = newRole] ELSE m : m \in @}])

\* a call of one of the three methods: what it returned and what it left in
\* the table
MemberCall(fn, projectID, userID, by, r) ==
  /\ db' = r.db
  /\ last' = [NoEvent EXCEPT !.kind = "members", !.fn = fn, !.user = by,
                             !.args = <<projectID, userID>>, !.failure = r.err]
  /\ UNCHANGED <<clock, pendingOperations, cb, executions, resolved>>
  /\ UNCHANGED jsvars

AddMember(projectID, userID, by, role) ==
  MemberCall("AddUserToProject", projectID, userID, by,
             AddUserToProject(db, projectID, userID, by, role))
RemoveMember(projectID, userID, by) ==
  MemberCall("RemoveUserFromProject", projectID, userID, by,
             RemoveUserFromProject(db, projectID, userID, by))
UpdateMember(projectID, userID, by, role) ==
  MemberCall("UpdateUserRoleInProject", projectID, userID, by,
             UpdateUserRoleInProject(db, projectID, userID, by, role))

NextMembers ==
  \/ \E p \in CalledProjects, u \in MemberIDs, by \in MemberIDs, role \in ProjectRoles :
       AddMember(p, u, by, role)
  \/ \E p \in CalledProjects, u \in MemberIDs, by \in MemberIDs : RemoveMember(p, u, by)
  \/ \E p \in CalledProjects, u \in MemberIDs, by \in MemberIDs, role \in ProjectRoles :
       UpdateMember(p, u, by, role)

SpecMembers == Init /\ [][NextMembers]_vars

\* C38: a call of RemoveUserFromProject that targets the only owner of a
\* project fails and leaves the memberships as they were, whoever the remover
\* is, the owner themselves included.
C38_LastOwnerStays ==
  [][(/\ last'.kind = "members" /\ last'.fn = "RemoveUserFromProject"
      /\ GetUserRoleInProject(db, last'.args[1], last'.args[2]) = "owner"
      /\ GetProjectOwnerCount(db, last'.args[1]) = 1)
       => last'.failure # "" /\ db'.project_users = db.project_users]_vars

\* --------------------------------------------------- the stored history
\* the rows of the table that belong to a chat
RowsOf(table, chatID) == Cardinality({i \in 1..Len(table) : table[i].chat_id = chatID})
\* the chats a row can belong to: the records of the sandbox name chat 0
HistoryChats == {0} \cup ChatIDs
\* a table that earlier turns of one chat have filled with n rows
History(chatID, n) ==
  [i \in 1..n |-> [user_id |-> 1, chat_id |-> chatID,
                   role |-> IF chatID # 0 /\ i % 2 = 1 THEN "user" ELSE "assistant",
                   content |-> <<"old">>]]
StoredHistories ==
  {<<>>} \cup {History(c, n) : c \in HistoryChats, n \in {KeepMessages - 1, KeepMessages}}
\* the bot is restarted on the table its earlier run has left
InitHistory == Constructed /\ messagesTable \in StoredHistories

\* what goes wrong in a turn: the AI service returns an error that is not a
\* function call, or the direct function does
TurnFailures == {"none", "ai", "direct"}

\* the text messages the bot is sent
MaxMessages == 2

\* reply.go:190-366  processTextMessage, the table messages included
TextMessage(userID, chatID, aiResponse, failure) ==
  /\ host = "up"
  /\ main.started < MaxMessages
  /\ LET received == SaveMessage(messagesTable, userID, chatID, "user", <<"text">>)
         h == HandleResponse(userID, chatID, aiResponse)
         answered ==
           IF h.branch = "text"
           THEN SaveMessage(received, userID, chatID, "assistant", aiResponse)
           ELSE IF h.branch = "direct" /\ failure # "direct"
           THEN SaveMessage(received, userID, chatID, "assistant", <<"result">>)
           ELSE received
     IN IF failure = "ai"
        THEN \* :226-237  the error text is saved and sent, and the handler returns
             /\ messagesTable' = SaveMessage(received, userID, chatID, "assistant",
                                             <<"error">>)
             /\ last' = [NoEvent EXCEPT !.kind = "message", !.branch = "ai error",
                                        !.chat = chatID]
             /\ UNCHANGED <<pendingOperations, sent>>
        ELSE \* :240-364
             /\ messagesTable' = CleanupOldMessages(answered, chatID, KeepMessages)
             /\ pendingOperations' = IF h.branch = "confirmation"
                                     THEN Store(pendingOperations, h.op)
                                     ELSE pendingOperations
             /\ sent' = IF h.branch = "confirmation"
                        THEN sent \cup {[chat |-> chatID, opid |-> h.op.ID]} ELSE sent
             /\ last' = [NoEvent EXCEPT !.kind = "message", !.branch = h.branch,
                                        !.chat = chatID]
  /\ main' = [main EXCEPT !.arrived = @ + 1, !.started = @ + 1]
  /\ UNCHANGED <<clock, db, cb, executions, resolved, inv, leaked, host, turn>>

\* functions.go:480-517  the row a confirm or a cancel saves, and the clean-up
\* of the record's chat that follows
Stored(table, saved) ==
  IF saved = <<>> THEN table
  ELSE CleanupOldMessages(table \o saved, saved[1].chat_id, KeepMessages)
\* HandleCallbackQuery for a confirm or a cancel, the table messages included
Resolution(data, from, chat, failure) ==
  /\ Callback(data, from, chat, failure)
  /\ messagesTable' = Stored(messagesTable, last'.saved)

\* the mutating calls of the scripts of these turns
HistoryCalls == {c \in TurnCalls : c.fn = "deleteProject"}
\* the confirm and cancel buttons of the confirmation messages
AnswerData == {<<a>> \o id : a \in {"confirm", "cancel"}, id \in AllIDs}

NextHistory ==
  \/ \E u \in {1}, chat \in ChatIDs, r \in AIResponses, failure \in TurnFailures :
       /\ failure = "direct" => HandleResponse(u, chat, r).branch = "direct"
       /\ TextMessage(u, chat, r, failure)
  \/ \E c \in HistoryCalls : ScriptCall(c.user, c.fn, c.args)
  \/ \E data \in AnswerData, chat \in ChatIDs :
       \E from \in Senders(pendingOperations, data),
          failure \in FailuresOf(pendingOperations, data) :
         Resolution(data, from, chat, failure)

SpecHistory == InitHistory /\ [][NextHistory]_vars

\* C39: when a text message has been handled, the history of its chat holds at
\* most 50 rows, a turn in which the AI service returned an error included;
\* when a confirm or a cancel has been handled, so does the history of the
\* chat its result was saved to.
C39_HistoryAtMostFifty ==
  /\ last.kind = "message" => RowsOf(messagesTable, last.chat) <= KeepMessages
  /\ last.kind = "callback" /\ last.branch \in {"confirm_ok", "confirm_failed", "cancel"}
       => \A k \in 1..Len(last.saved) :
            RowsOf(messagesTable, last.saved[k].chat_id) <= KeepMessages

====
